---- MODULE Spec2Model ----
(***************************************************************************)
(* Model of the coffee recommendation pipeline: the entity linker and its  *)
(* caches (entity_linker.py), the aggregator's flavor rankings, the setup  *)
(* driver (setup_and_run.py), the Reddit saver (reddit_scraper.py), the    *)
(* migration of raw_reviews (migrate_data.py) and the batch loop of the    *)
(* NLP processor (nlp_processor.py).                                       *)
(*                                                                         *)
(* Strings are sequences of one-character strings, so that lower(),        *)
(* strip(), replace() and difflib's SequenceMatcher are computed as the    *)
(* Python code computes them.                                              *)
(***************************************************************************)
EXTENDS Integers, Sequences, FiniteSets, TLC

VARIABLES
    flavor_terms,       \* table flavor_terms, in storage order (reference data)
    nlp_extractions,    \* table nlp_extractions: processed_review_id -> extraction
    db,                 \* the tables as the linker's connection sees them
    committed,          \* the tables as of the last commit
    aborted,            \* the open transaction is in the failed state
    seq,                \* the serial sequences of entities.id and origins.id
    flavor_cache,       \* EntityLinker.flavor_cache (insertion-ordered dict)
    entity_cache,       \* EntityLinker.entity_cache
    origin_cache,       \* EntityLinker.origin_cache
    owners,             \* the reviews whose writes the open transaction holds
    faults,             \* how many more statements may raise (the environment's budget)
    pc,                 \* position of run / process_batch
    total_limit,        \* run's argument
    reviews,            \* process_batch: the fetched batch
    i,                  \* process_batch: the loop index
    total_processed,    \* run: the running total
    calls,              \* history: the calls made to the linker so far, in order
    last,               \* history: the last operation and what it was applied to
    today,              \* CURRENT_DATE, in days
    flavor_rankings,    \* table flavor_rankings
    raw_posts,          \* table raw_posts, in storage order
    step,               \* setup_and_run.main: the step being run
    trace,              \* setup_and_run.main: what has happened, in order
    script              \* the locals of a script's routine (migrate_data, nlp_processor)

vars == <<flavor_terms, nlp_extractions, db, committed, aborted, seq, flavor_cache,
          entity_cache, origin_cache, owners, faults, pc, total_limit, reviews, i,
          total_processed, calls, last, today, flavor_rankings, raw_posts, step, trace, script>>

\* the element of a one-element set; Only({F(v) : v \in {e}}) is F(e) with e
\* evaluated once
Only(S) == CHOOSE x \in S : TRUE

\* Python's None for an id: ids are serial (>= 1) and every test on one is a truth test
None == 0

(***************************************************************************)
(* Python string methods                                                   *)
(***************************************************************************)

\* str.lower() on one character
LowerChar(c) ==
    CASE c = "A" -> "a"
      [] c = "B" -> "b"
      [] c = "C" -> "c"
      [] c = "D" -> "d"
      [] c = "E" -> "e"
      [] OTHER -> c

\* str.upper() on one character
UpperChar(c) ==
    CASE c = "a" -> "A"
      [] c = "b" -> "B"
      [] c = "c" -> "C"
      [] c = "d" -> "D"
      [] c = "e" -> "E"
      [] OTHER -> c

IsSpace(c) == c \in {" ", "\n"}

IsLetter(c) == c \in {"a", "b", "c", "d", "e", "A", "B", "C", "D", "E"}

\* str.lower()
Lower(s) == [n \in 1..Len(s) |-> LowerChar(s[n])]

\* str.strip(): what lies between the first and the last non-whitespace character
Strip(s) ==
    IF \A n \in 1..Len(s) : IsSpace(s[n]) THEN << >>
    ELSE SubSeq(s,
                CHOOSE n \in 1..Len(s) : ~IsSpace(s[n]) /\ \A m \in 1..(n - 1) : IsSpace(s[m]),
                CHOOSE n \in 1..Len(s) : ~IsSpace(s[n]) /\ \A m \in (n + 1)..Len(s) : IsSpace(s[m]))

\* str.replace(old, new) from position k on, for a one-character old
RECURSIVE ReplaceFrom(_, _, _, _)
ReplaceFrom(s, k, old, new) ==
    IF k > Len(s) THEN << >>
    ELSE (IF s[k] = old THEN new ELSE <<s[k]>>) \o ReplaceFrom(s, k + 1, old, new)

\* str.replace(old, new)
Replace(s, old, new) == Only({ReplaceFrom(v, 1, old, new) : v \in {s}})

\* str.title(): a letter is upper-cased after a non-letter, lower-cased after a letter
Title(s) ==
    [n \in 1..Len(s) |->
        IF n = 1 \/ ~IsLetter(s[n - 1]) THEN UpperChar(s[n]) ELSE LowerChar(s[n])]

(***************************************************************************)
(* difflib.SequenceMatcher(None, a, b).ratio()                             *)
(***************************************************************************)

\* length of the common run of a from i and b from j
RECURSIVE RunLen(_, _, _, _)
RunLen(a, b, x, y) ==
    IF x <= Len(a) /\ y <= Len(b) /\ a[x] = b[y] THEN 1 + RunLen(a, b, x + 1, y + 1)
    ELSE 0

\* block p = <<start in a, start in b, length>> is preferred to q: longer, then
\* earlier in a, then earlier in b
BetterBlock(p, q) ==
    \/ p[3] > q[3]
    \/ p[3] = q[3] /\ p[1] < q[1]
    \/ p[3] = q[3] /\ p[1] = q[1] /\ p[2] <= q[2]

\* find_longest_match: the longest block, the earliest in a, then the earliest in b
LongestMatch(a, b) ==
    IF a = << >> \/ b = << >> THEN <<0, 0, 0>>
    ELSE Only({CHOOSE p \in blocks : \A q \in blocks : BetterBlock(p, q) :
                 blocks \in {{<<x, y, RunLen(a, b, x, y)>> : x \in 1..Len(a), y \in 1..Len(b)}}})

\* get_matching_blocks: the matched characters, left and right of the longest block m
RECURSIVE MatchCount(_, _)
MatchCountAround(a, b, m) ==
    IF m[3] = 0 THEN 0
    ELSE Only({m[3] + MatchCount(la, lb) + MatchCount(ra, rb) :
                 la \in {SubSeq(a, 1, m[1] - 1)}, lb \in {SubSeq(b, 1, m[2] - 1)},
                 ra \in {SubSeq(a, m[1] + m[3], Len(a))},
                 rb \in {SubSeq(b, m[2] + m[3], Len(b))}})

MatchCount(a, b) == Only({MatchCountAround(a, b, m) : m \in {LongestMatch(a, b)}})

\* ratio() = 2.0 * M / T as the exact fraction <<2M, T>>; 1.0 when both are empty
Ratio(a, b) ==
    IF Len(a) + Len(b) = 0 THEN <<1, 1>> ELSE <<2 * MatchCount(a, b), Len(a) + Len(b)>>

\* SequenceMatcher(None, a, b).ratio()
SequenceMatcherRatio(a, b) == Only({Ratio(x, y) : x \in {a}, y \in {b}})

\* comparison of two fractions with positive denominators
FracGT(x, y) == x[1] * y[2] > y[1] * x[2]

(***************************************************************************)
(* Python dicts (insertion-ordered): a sequence of [key, val] with         *)
(* distinct keys                                                           *)
(***************************************************************************)

DictHas(d, k) == \E n \in 1..Len(d) : d[n].key = k

DictGet(d, k) == d[CHOOSE n \in 1..Len(d) : d[n].key = k].val

\* d[k] = v: an existing key keeps its position
DictSet(d, k, v) ==
    IF DictHas(d, k)
    THEN [n \in 1..Len(d) |-> IF d[n].key = k THEN [key |-> k, val |-> v] ELSE d[n]]
    ELSE Append(d, [key |-> k, val |-> v])

(***************************************************************************)
(* EntityLinker._load_caches                                               *)
(***************************************************************************)

\* for syn in row['synonyms']: self.flavor_cache[syn.lower()] = row
RECURSIVE IndexSynonyms(_, _, _)
IndexSynonyms(cache, syns, row) ==
    IF syns = << >> THEN cache
    ELSE IndexSynonyms(DictSet(cache, Lower(Head(syns)), row), Tail(syns), row)

\* the flavor_terms loop; a NULL synonyms is the empty list (both are falsy)
RECURSIVE LoadFlavorCache(_, _)
LoadFlavorCache(cache, rows) ==
    IF rows = << >> THEN cache
    ELSE LET row == Head(rows)
             c1 == DictSet(cache, Lower(row.term), row)
             c2 == DictSet(c1, Lower(row.normalized_term), row)
             c3 == IF row.synonyms # << >> THEN IndexSynonyms(c2, row.synonyms, row) ELSE c2
         IN  LoadFlavorCache(c3, Tail(rows))

\* the entities loop
RECURSIVE LoadEntityCache(_, _)
LoadEntityCache(cache, rows) ==
    IF rows = << >> THEN cache
    ELSE LET row == Head(rows)
             c1 == DictSet(cache, Lower(row.name), row)
             c2 == DictSet(c1, Lower(row.slug), row)
         IN  LoadEntityCache(c2, Tail(rows))

\* the origins loop
RECURSIVE LoadOriginCache(_, _)
LoadOriginCache(cache, rows) ==
    IF rows = << >> THEN cache
    ELSE LET row == Head(rows)
             c1 == DictSet(cache, Lower(row.normalized_name), row)
             c2 == DictSet(c1, Lower(row.country), row)
         IN  LoadOriginCache(c2, Tail(rows))

(***************************************************************************)
(* The connection: statements, the failed-transaction state, commit and    *)
(* rollback.  st is the linker's state while one handler runs:             *)
(*   db, committed, aborted, seq, the three caches, owners,                *)
(*   cur    - the review being linked (None outside link_single_review)    *)
(*   n      - statements executed by the handler so far                    *)
(*   failAt - the statement of this handler that raises (0: none)          *)
(***************************************************************************)

\* cur.execute raises: the statement fails, or the transaction has already failed
Raises(st) == st.aborted \/ st.n + 1 = st.failAt

\* a statement that raised leaves the transaction failed
Failed(st) == [st EXCEPT !.n = @ + 1, !.aborted = TRUE]

\* a statement that ran and wrote nothing (a SELECT, an INSERT that conflicted)
Selected(st) == [st EXCEPT !.n = @ + 1]

\* a statement that ran and left the tables as newdb
Executed(st, newdb) ==
    [st EXCEPT !.n = @ + 1, !.db = newdb, !.owners = @ \cup {st.cur}]

\* conn.rollback()
Rollback(st) == [st EXCEPT !.db = st.committed, !.aborted = FALSE, !.owners = {}]

\* conn.commit(): a failed transaction is rolled back by COMMIT
Commit(st) ==
    IF st.aborted THEN Rollback(st)
    ELSE [st EXCEPT !.committed = st.db, !.owners = {}]

(***************************************************************************)
(* Flavor linking                                                          *)
(***************************************************************************)

\* find_flavor_id without the strip()
find_flavor_id_unstripped(cache, flavor_term) ==
    IF DictHas(cache, Lower(flavor_term))
    THEN DictGet(cache, Lower(flavor_term)).id
    ELSE None

find_flavor_id(cache, flavor_term) ==
    LET flavor_term_lower == Strip(Lower(flavor_term))
    IN  IF DictHas(cache, flavor_term_lower)
        THEN DictGet(cache, flavor_term_lower).id
        ELSE None

\* list.index(x): the first position holding a value equal to x (0-based)
ListIndex(l, x) == (CHOOSE n \in 1..Len(l) : l[n] = x /\ \A m \in 1..(n - 1) : l[m] # x) - 1

\* the unique key of flavor_extractions that ON CONFLICT DO NOTHING acts on
FlavorExtractionConflict(rows, row) ==
    \E n \in 1..Len(rows) : /\ rows[n].processed_review_id = row.processed_review_id
                            /\ rows[n].flavor_term_id = row.flavor_term_id

\* the unique key of coffee_mentions that ON CONFLICT DO NOTHING acts on
CoffeeMentionConflict(rows, row) ==
    \E n \in 1..Len(rows) : rows[n].post_id = row.post_id /\ rows[n].roaster_id = row.roaster_id

\* flavor_data.get('context', '')[:200]: << >> when the slice raises (the context
\* is None), else <<the text>> (the texts here are shorter than 200 characters)
SentenceContext(flavor_data) ==
    IF "context" \in DOMAIN flavor_data THEN flavor_data.context ELSE <<"">>

\* the row link_flavors inserts for extracted_flavors[k]
FlavorExtractionRow(processed_review_id, post_id, flavor_id, extracted_flavors, k) ==
    [processed_review_id |-> processed_review_id,
     post_id             |-> post_id,
     flavor_term_id      |-> flavor_id,
     mention_text        |-> extracted_flavors[k].term,
     sentence_context    |-> SentenceContext(extracted_flavors[k]),
     sentiment           |-> extracted_flavors[k].sentiment,
     confidence_score    |-> extracted_flavors[k].confidence,
     mention_order       |-> ListIndex(extracted_flavors, extracted_flavors[k]) + 1,
     created_at          |-> today]

\* LinkFlavor with a plain INSERT, without ON CONFLICT DO NOTHING
LinkFlavorPlainInsert(st, ids, row, flavor_id) ==
    IF flavor_id = None THEN [st |-> st, ids |-> ids]
    ELSE IF row.sentence_context = << >> THEN [st |-> st, ids |-> ids]
    ELSE IF Raises(st) THEN [st |-> Failed(st), ids |-> ids]
    ELSE [st |-> Executed(st, [st.db EXCEPT !.flavor_extractions = Append(@, row)]),
          ids |-> Append(ids, flavor_id)]

\* LinkFlavor that appends the id without looking at fetchone(), as link_roasters does
LinkFlavorNoFetch(st, ids, row, flavor_id) ==
    IF flavor_id = None THEN [st |-> st, ids |-> ids]
    ELSE IF row.sentence_context = << >> THEN [st |-> st, ids |-> ids]
    ELSE IF Raises(st) THEN [st |-> Failed(st), ids |-> ids]
    ELSE IF FlavorExtractionConflict(st.db.flavor_extractions, row)
         THEN [st |-> Selected(st), ids |-> Append(ids, flavor_id)]
    ELSE [st |-> Executed(st, [st.db EXCEPT !.flavor_extractions = Append(@, row)]),
          ids |-> Append(ids, flavor_id)]

\* the body of link_flavors' loop for extracted_flavors[k], whose flavor id is
\* flavor_id: an unknown term is skipped; building the arguments may raise before
\* the statement is sent; the statement may raise; a conflict returns no row
LinkFlavor(st, ids, row, flavor_id) ==
    IF flavor_id = None THEN [st |-> st, ids |-> ids]
    ELSE IF row.sentence_context = << >> THEN [st |-> st, ids |-> ids]
    ELSE IF Raises(st) THEN [st |-> Failed(st), ids |-> ids]
    ELSE IF FlavorExtractionConflict(st.db.flavor_extractions, row)
         THEN [st |-> Selected(st), ids |-> ids]
    ELSE [st |-> Executed(st, [st.db EXCEPT !.flavor_extractions = Append(@, row)]),
          ids |-> Append(ids, flavor_id)]

\* link_flavors, from element k on; acc holds the state and linked_flavor_ids
RECURSIVE LinkFlavorsFrom(_, _, _, _, _)
LinkFlavorsFrom(acc, k, processed_review_id, post_id, extracted_flavors) ==
    IF k > Len(extracted_flavors) THEN acc
    ELSE Only({LinkFlavorsFrom(linked, k + 1, processed_review_id, post_id,
                               extracted_flavors) :
               linked \in {LinkFlavor(acc.st, acc.ids,
                                      FlavorExtractionRow(processed_review_id, post_id,
                                                          flavor_id, extracted_flavors, k),
                                      flavor_id) :
                           flavor_id \in {find_flavor_id(acc.st.flavor_cache,
                                                         extracted_flavors[k].term)}}})

link_flavors(st, processed_review_id, post_id, extracted_flavors) ==
    LinkFlavorsFrom([st |-> st, ids |-> << >>], 1, processed_review_id, post_id,
                    extracted_flavors)

(***************************************************************************)
(* Roaster / entity linking                                                *)
(***************************************************************************)

normalize_name(name) == Replace(Replace(Strip(Lower(name)), "'", << >>), "-", <<" ">>)

fuzzy_match_score(str1, str2) == SequenceMatcherRatio(Lower(str1), Lower(str2))

\* slug = entity_name.lower().replace(' ', '-').replace("'", "")
EntitySlug(entity_name) == Replace(Replace(Lower(entity_name), " ", <<"-">>), "'", << >>)

\* the threshold of a linker that accepts matches above 0.70
FuzzyThresholdLoose == <<70, 100>>

\* the similarity above which a fuzzy match is used, 0.85
FuzzyThreshold == <<85, 100>>

\* the loop over entity_cache.items(): the first entry of the type with the best score
\* the body of the loop for one cache entry, whose score is score
BetterMatch(entry, entity_type, score, best) ==
    IF entry.val.entity_type # entity_type THEN best
    ELSE IF FracGT(score, best.score)
         THEN [found |-> TRUE, match |-> entry.val, score |-> score]
         ELSE best

RECURSIVE BestMatchFrom(_, _, _, _, _)
BestMatchFrom(cache, k, normalized, entity_type, best) ==
    IF k > Len(cache) THEN best
    ELSE Only({BestMatchFrom(cache, k + 1, normalized, entity_type, better) :
               better \in {BetterMatch(cache[k], entity_type, score, best) :
                           score \in {fuzzy_match_score(normalized, cache[k].key)}}})

BestMatch(cache, normalized, entity_type) ==
    BestMatchFrom(cache, 1, normalized, entity_type,
                  [found |-> FALSE, match |-> None, score |-> <<0, 1>>])

\* INSERT INTO entities ... ON CONFLICT (slug) DO UPDATE SET name = EXCLUDED.name
UpsertEntity(rows, id, entity_type, name, slug) ==
    IF \E n \in 1..Len(rows) : rows[n].slug = slug
    THEN [n \in 1..Len(rows) |->
            IF rows[n].slug = slug THEN [rows[n] EXCEPT !.name = name] ELSE rows[n]]
    ELSE Append(rows, [id |-> id, name |-> name, slug |-> slug,
                       entity_type |-> entity_type])

\* RETURNING id
EntityIdOfSlug(rows, slug) == rows[CHOOSE n \in 1..Len(rows) : rows[n].slug = slug].id

\* the try block of find_or_create_entity: the INSERT and the cache entry
CreateEntity(st, entity_name, entity_type, normalized, slug, rows) ==
    IF Raises(st) THEN [st |-> Rollback(Failed(st)), id |-> None]
    ELSE [st |-> [Executed([st EXCEPT !.seq.entities = @ + 1],
                           [st.db EXCEPT !.entities = rows])
                  EXCEPT !.entity_cache =
                      DictSet(@, normalized,
                              [id |-> EntityIdOfSlug(rows, slug), name |-> entity_name,
                               slug |-> slug, entity_type |-> entity_type])],
          id |-> EntityIdOfSlug(rows, slug)]

\* find_or_create_entity after normalize_name and the fuzzy loop
FindOrCreate(st, entity_name, entity_type, normalized, best, slug) ==
    IF DictHas(st.entity_cache, normalized)
    THEN [st |-> st, id |-> DictGet(st.entity_cache, normalized).id]
    ELSE IF best.found /\ FracGT(best.score, FuzzyThreshold)
    THEN [st |-> st, id |-> best.match.id]
    ELSE Only({CreateEntity(st, entity_name, entity_type, normalized, slug, rows) :
                 rows \in {UpsertEntity(st.db.entities, st.seq.entities + 1, entity_type,
                                        entity_name, slug)}})

\* find_or_create_entity: the state after the call and the id returned
find_or_create_entity(st, entity_name, entity_type) ==
    Only({Only({FindOrCreate(st, entity_name, entity_type, normalized, best, slug) :
                  best \in {BestMatch(st.entity_cache, normalized, entity_type)}}) :
            normalized \in {normalize_name(entity_name)},
            slug \in {EntitySlug(entity_name)}})

\* the row link_roasters inserts
CoffeeMentionRow(post_id, entity_id, roaster_name) ==
    [post_id |-> post_id, roaster_id |-> entity_id, mention_text |-> roaster_name]

\* the body of link_roasters' loop, given what find_or_create_entity returned
LinkRoaster(found, ids, row) ==
    IF found.id = None THEN [st |-> found.st, ids |-> ids]
    ELSE IF Raises(found.st) THEN [st |-> Failed(found.st), ids |-> ids]
    ELSE IF CoffeeMentionConflict(found.st.db.coffee_mentions, row)
         THEN [st |-> Selected(found.st), ids |-> Append(ids, found.id)]
    ELSE [st |-> Executed(found.st, [found.st.db EXCEPT !.coffee_mentions = Append(@, row)]),
          ids |-> Append(ids, found.id)]

\* one roaster: find_or_create_entity, then the INSERT into coffee_mentions
LinkRoasterFound(found, ids, post_id, roaster_name) ==
    LinkRoaster(found, ids, CoffeeMentionRow(post_id, found.id, roaster_name))

\* link_roasters, from element k on; acc holds the state and linked_entity_ids
RECURSIVE LinkRoastersFrom(_, _, _, _)
LinkRoastersFrom(acc, k, post_id, extracted_roasters) ==
    IF k > Len(extracted_roasters) THEN acc
    ELSE Only({LinkRoastersFrom(linked, k + 1, post_id, extracted_roasters) :
               linked \in {LinkRoasterFound(found, acc.ids, post_id, extracted_roasters[k]) :
                           found \in {find_or_create_entity(acc.st, extracted_roasters[k],
                                                            "roaster")}}})

link_roasters(st, post_id, extracted_roasters) ==
    LinkRoastersFrom([st |-> st, ids |-> << >>], 1, post_id, extracted_roasters)

(***************************************************************************)
(* Origin linking                                                          *)
(***************************************************************************)

\* f"{country.lower()}_general" (link_origins passes no region)
OriginNormalized(country) == Lower(country) \o <<"_", "general">>

\* INSERT INTO origins ... ON CONFLICT (normalized_name) DO UPDATE SET country
UpsertOrigin(rows, id, country, normalized) ==
    IF \E n \in 1..Len(rows) : rows[n].normalized_name = normalized
    THEN [n \in 1..Len(rows) |->
            IF rows[n].normalized_name = normalized
            THEN [rows[n] EXCEPT !.country = Title(country)] ELSE rows[n]]
    ELSE Append(rows, [id |-> id, country |-> Title(country), region |-> << >>,
                       normalized_name |-> normalized])

\* RETURNING id
OriginIdOfName(rows, normalized) ==
    rows[CHOOSE n \in 1..Len(rows) : rows[n].normalized_name = normalized].id

\* the try block of find_or_create_origin: the INSERT and the cache entry
CreateOrigin(st, country, normalized, rows) ==
    IF Raises(st) THEN [st |-> Rollback(Failed(st)), id |-> None]
    ELSE [st |-> [Executed([st EXCEPT !.seq.origins = @ + 1],
                           [st.db EXCEPT !.origins = rows])
                  EXCEPT !.origin_cache =
                      DictSet(@, normalized,
                              [id |-> OriginIdOfName(rows, normalized), country |-> country,
                               region |-> << >>, normalized_name |-> normalized])],
          id |-> OriginIdOfName(rows, normalized)]

\* find_or_create_origin(country): the state after the call and the id returned
find_or_create_origin(st, country) ==
    IF DictHas(st.origin_cache, OriginNormalized(country))
    THEN [st |-> st, id |-> DictGet(st.origin_cache, OriginNormalized(country)).id]
    ELSE Only({CreateOrigin(st, country, OriginNormalized(country), rows) :
                 rows \in {UpsertOrigin(st.db.origins, st.seq.origins + 1, country,
                                        OriginNormalized(country))}})

\* the body of link_origins' loop, given what find_or_create_origin returned
LinkOrigin(found, ids) ==
    [st |-> found.st, ids |-> IF found.id = None THEN ids ELSE Append(ids, found.id)]

\* link_origins, from element k on; acc holds the state and linked_origin_ids
RECURSIVE LinkOriginsFrom(_, _, _)
LinkOriginsFrom(acc, k, extracted_origins) ==
    IF k > Len(extracted_origins) THEN acc
    ELSE Only({LinkOriginsFrom(linked, k + 1, extracted_origins) :
               linked \in {LinkOrigin(found, acc.ids) :
                           found \in {find_or_create_origin(acc.st, extracted_origins[k])}}})

link_origins(st, extracted_origins) ==
    LinkOriginsFrom([st |-> st, ids |-> << >>], 1, extracted_origins)

(***************************************************************************)
(* link_single_review                                                      *)
(***************************************************************************)

\* str(oid)
Str(oid) == <<"str", oid>>

\* UPDATE processed_reviews SET mentioned_... WHERE id = processed_review_id
UpdateProcessedReview(rows, processed_review_id, flavor_ids, roaster_ids, origin_ids) ==
    {IF r.id = processed_review_id
     THEN [r EXCEPT !.mentioned_flavor_ids = flavor_ids,
                    !.mentioned_roaster_ids = roaster_ids,
                    !.mentioned_origins = [n \in 1..Len(origin_ids) |-> Str(origin_ids[n])]]
     ELSE r : r \in rows}

\* _get_extracted_data: it catches its own exception and returns None
get_extracted_data(st, processed_review_id) ==
    IF Raises(st) THEN [st |-> Failed(st), found |-> FALSE]
    ELSE [st |-> Selected(st), found |-> processed_review_id \in DOMAIN nlp_extractions]

\* the UPDATE of processed_reviews, and the except block that rolls back
LinkReviewUpdate(o, flavor_ids, roaster_ids, review) ==
    IF Raises(o.st) THEN Rollback(Failed(o.st))
    ELSE Executed(o.st, [o.st.db EXCEPT !.processed_reviews =
                           UpdateProcessedReview(@, review.id, flavor_ids, roaster_ids, o.ids)])

\* link_single_review from link_origins on
LinkReviewOrigins(r, flavor_ids, review, extracted_data) ==
    Only({LinkReviewUpdate(o, flavor_ids, r.ids, review) :
            o \in {link_origins(r.st, extracted_data.origins)}})

\* link_single_review from link_roasters on
LinkReviewRoasters(f, review, extracted_data) ==
    Only({LinkReviewOrigins(r, f.ids, review, extracted_data) :
            r \in {link_roasters(f.st, review.post_id, extracted_data.roasters)}})

\* link_single_review after _get_extracted_data
LinkReviewData(e, review) ==
    IF ~e.found THEN e.st
    ELSE Only({LinkReviewRoasters(f, review, nlp_extractions[review.id]) :
                 f \in {link_flavors(e.st, review.id, review.post_id,
                                     nlp_extractions[review.id].flavors)}})

\* link_single_review: the state after the call (the stats are only logged)
link_single_review(st, review) ==
    Only({LinkReviewData(e, review) :
            e \in {get_extracted_data([st EXCEPT !.cur = review.id], review.id)}})

(***************************************************************************)
(* process_batch and run                                                   *)
(***************************************************************************)

\* batch_size = 50
BatchSize == 50

\* if i % 10 == 0: commit
CommitEvery == 10

\* ORDER BY processed_at DESC LIMIT limit, over a set of rows
RECURSIVE OrderByProcessedAtDesc(_, _)
OrderByProcessedAtDesc(rows, limit) ==
    IF rows = {} \/ limit = 0 THEN << >>
    ELSE Only({Only({<<first>> \o OrderByProcessedAtDesc(rest, limit - 1) :
                       rest \in {rows \ {first}}}) :
                 first \in {CHOOSE r \in rows :
                               \A q \in rows : q.processed_at <= r.processed_at}})

\* get_unlinked_reviews: the processed reviews without a flavor_extractions row
get_unlinked_reviews(tables, limit) ==
    Only({OrderByProcessedAtDesc(unlinked, limit) :
            unlinked \in {{pr \in tables.processed_reviews :
                             ~\E n \in 1..Len(tables.flavor_extractions) :
                                 tables.flavor_extractions[n].processed_review_id = pr.id}}})

\* the linker's state as a handler starts
LinkerState(failAt) ==
    [db |-> db, committed |-> committed, aborted |-> aborted, seq |-> seq,
     flavor_cache |-> flavor_cache, entity_cache |-> entity_cache,
     origin_cache |-> origin_cache, owners |-> owners,
     cur |-> None, n |-> 0, failAt |-> failAt]

\* the linker's state as a handler ends
Install(st) ==
    /\ db' = st.db
    /\ committed' = st.committed
    /\ aborted' = st.aborted
    /\ seq' = st.seq
    /\ entity_cache' = st.entity_cache
    /\ origin_cache' = st.origin_cache
    /\ owners' = st.owners
    /\ faults' = faults - (IF st.failAt > 0 /\ st.n >= st.failAt THEN 1 ELSE 0)
    /\ UNCHANGED flavor_cache

\* bound: how many statements may raise in one behaviour
MaxFaults == 1

\* bound: the statements of one handler among which the raising one is chosen
MaxStmts == 4

\* the choices of the statement that raises
FailChoices == IF faults > 0 THEN 0..MaxStmts ELSE {0}

\* bound: total_processed is counted up to here (a Python int has no bound)
MaxTotal == 12

Min(x, y) == IF x <= y THEN x ELSE y

reference == <<flavor_terms, nlp_extractions, flavor_cache, total_limit>>
others == <<calls, last, today, flavor_rankings, raw_posts, step, trace, script>>
unused == <<calls, today, flavor_rankings, raw_posts, step, trace, script>>

\* history of a run: the reviews link_single_review has been applied to, and those
\* of the current process_batch call whose linking went through with no statement
\* raising
RunHistory == last = [op |-> "run", applied |-> {}, clean |-> {}]

\* process_batch up to the loop: fetch the batch; run breaks when it is empty
StartBatch ==
    /\ pc = "run"
    /\ \E fetched \in {get_unlinked_reviews(db, BatchSize)} :
           /\ reviews' = fetched
           /\ IF fetched = << >>
              THEN pc' = "returned" /\ i' = 0
              ELSE pc' = "link" /\ i' = 1
    /\ last' = [last EXCEPT !.clean = {}]
    /\ UNCHANGED <<db, committed, aborted, seq, entity_cache, origin_cache, owners,
                   faults, total_processed, reference, unused>>

\* the loop body: stats = self.link_single_review(review)
LinkReview ==
    /\ pc = "link"
    /\ \E failAt \in FailChoices :
       \E st \in {link_single_review(LinkerState(failAt), reviews[i])} :
          /\ Install(st)
          /\ last' = [last EXCEPT
                        !.applied = @ \cup {reviews[i].id},
                        !.clean = IF ~aborted /\ ~(st.failAt > 0 /\ st.n >= st.failAt)
                                  THEN @ \cup {reviews[i].id} ELSE @]
    /\ pc' = "commit"
    /\ UNCHANGED <<reviews, i, total_processed, nlp_extractions, flavor_terms,
                   total_limit, unused>>

\* CommitEveryTen without the commit inside the loop (only the final commit is left)
CommitEveryTenDropped ==
    /\ pc = "commit"
    /\ IF i < Len(reviews)
       THEN i' = i + 1 /\ pc' = "link"
       ELSE i' = i /\ pc' = "final"
    /\ UNCHANGED <<db, committed, aborted, seq, entity_cache, origin_cache, owners,
                   faults, flavor_cache, reviews, total_processed, nlp_extractions,
                   flavor_terms, total_limit, others>>

\* the loop body: commit every 10 reviews, then the next review
CommitEveryTen ==
    /\ pc = "commit"
    /\ IF i % CommitEvery = 0
       THEN \E st \in {Commit(LinkerState(0))} : Install(st)
       ELSE UNCHANGED <<db, committed, aborted, seq, entity_cache, origin_cache,
                        owners, faults, flavor_cache>>
    /\ IF i < Len(reviews)
       THEN i' = i + 1 /\ pc' = "link"
       ELSE i' = i /\ pc' = "final"
    /\ UNCHANGED <<reviews, total_processed, nlp_extractions, flavor_terms,
                   total_limit, others>>

\* the final commit, process_batch's return and run's loop test
FinalCommit ==
    /\ pc = "final"
    /\ \E st \in {Commit(LinkerState(0))} : Install(st)
    /\ total_processed' = Min(total_processed + Len(reviews), MaxTotal)
    /\ pc' = IF total_limit # None /\ total_processed' >= total_limit
             THEN "returned" ELSE "run"
    /\ UNCHANGED <<reviews, i, nlp_extractions, flavor_terms, total_limit, others>>

(***************************************************************************)
(* Initial states of the linker                                            *)
(***************************************************************************)

\* the reference table the linker specifications start from
FlavorTable ==
    <<[id |-> 1, term |-> <<"a">>, normalized_term |-> <<"a">>, synonyms |-> <<<<"b">>>>],
      [id |-> 2, term |-> <<"C">>, normalized_term |-> <<"c">>, synonyms |-> << >>]>>

\* a processed_reviews row as nlp_processor leaves it
ProcessedReview(r) ==
    [id |-> r, post_id |-> <<"post", r>>, processed_at |-> r,
     mentioned_flavor_ids |-> << >>, mentioned_roaster_ids |-> << >>,
     mentioned_origins |-> << >>]

\* an element of nlp_extractions.flavors
Flavor(term, sentiment, confidence) ==
    [term |-> term, sentiment |-> sentiment, confidence |-> confidence]

\* the empty tables of the linker's database
EmptyTables ==
    [entities |-> << >>, origins |-> << >>, flavor_extractions |-> << >>,
     coffee_mentions |-> << >>, processed_reviews |-> {}]

\* the idle values of the variables a specification does not use
IdleLinker ==
    /\ flavor_terms = << >> /\ nlp_extractions = << >>
    /\ db = EmptyTables /\ committed = EmptyTables
    /\ aborted = FALSE /\ seq = [entities |-> 0, origins |-> 0]
    /\ flavor_cache = << >> /\ entity_cache = << >> /\ origin_cache = << >>
    /\ owners = {} /\ faults = 0

IdleRun == pc = "idle" /\ total_limit = None /\ reviews = << >> /\ i = 0 /\ total_processed = 0

IdleHistory == calls = << >> /\ last = [op |-> "none"]

IdleRankings == today = 0 /\ flavor_rankings = {}

IdleScraper == raw_posts = << >>

IdleSetup == step = [at |-> "idle"] /\ trace = << >>

IdleScript == script = [at |-> "idle"]

\* EntityLinker.__init__ on the given tables: connect, then _load_caches
LinkerInit(terms, tables) ==
    /\ flavor_terms = terms
    /\ db = tables /\ committed = tables
    /\ aborted = FALSE
    /\ seq = [entities |-> Len(tables.entities), origins |-> Len(tables.origins)]
    /\ flavor_cache = LoadFlavorCache(<< >>, terms)
    /\ entity_cache = LoadEntityCache(<< >>, tables.entities)
    /\ origin_cache = LoadOriginCache(<< >>, tables.origins)
    /\ owners = {}

\* bound: the processed reviews of a run
MaxReviews == 11

\* bound: the reviews of a run that no flavor can be linked to
MaxUnlinkable == 1

\* bound: the total_limit given to run when it is not None
LimitArg == 5

\* the extraction of a review whose flavor is known
LinkableExtraction ==
    [flavors |-> <<Flavor(<<"a">>, 5, 8)>>, roasters |-> << >>, origins |-> << >>]

\* the extractions of a review that stays without a flavor_extractions row
UnlinkableExtractions ==
    {[flavors |-> << >>, roasters |-> <<<<"a", "b", "c">>>>, origins |-> << >>],
     [flavors |-> <<Flavor(<<"e">>, 5, 8)>>, roasters |-> << >>, origins |-> <<<<"a", "b">>>>]}

\* run() on a database of up to MaxReviews processed reviews; no statement raises
InitRun ==
    /\ \E count \in 0..MaxReviews :
       \E U \in SUBSET (1..count) :
          /\ Cardinality(U) <= MaxUnlinkable
          /\ \E missing \in SUBSET U :
             \E ext \in [U \ missing -> UnlinkableExtractions] :
                /\ nlp_extractions =
                     [r \in (1..count) \ missing |->
                        IF r \in U THEN ext[r] ELSE LinkableExtraction]
                /\ LinkerInit(FlavorTable,
                              [EmptyTables EXCEPT !.processed_reviews =
                                  {ProcessedReview(r) : r \in 1..count}])
    /\ faults = 0
    /\ pc = "run" /\ total_limit \in {None, LimitArg}
    /\ reviews = << >> /\ i = 0 /\ total_processed = 0
    /\ calls = << >> /\ RunHistory
    /\ IdleRankings /\ IdleScraper /\ IdleSetup /\ IdleScript

NextRun == StartBatch \/ LinkReview \/ CommitEveryTen \/ FinalCommit

\* run is sequential code: a step that can be taken is taken
SpecRun == InitRun /\ [][NextRun]_vars /\ WF_vars(NextRun)

\* an extraction with a synonym of its first flavor, a roaster and an origin
RichExtraction ==
    [flavors |-> <<Flavor(<<"a">>, 5, 8), Flavor(<<"B">>, 5, 8)>>,
     roasters |-> <<<<"a", "b", "c">>>>, origins |-> <<<<"a", "b">>>>]

\* run() on MaxReviews processed reviews, where up to MaxFaults statements raise
InitBatch ==
    /\ nlp_extractions =
         [r \in 1..MaxReviews |->
            IF r = MaxReviews - 1 THEN RichExtraction ELSE LinkableExtraction]
    /\ LinkerInit(FlavorTable,
                  [EmptyTables EXCEPT !.processed_reviews =
                      {ProcessedReview(r) : r \in 1..MaxReviews}])
    /\ faults \in 0..MaxFaults
    /\ pc = "run" /\ total_limit \in {None, LimitArg}
    /\ reviews = << >> /\ i = 0 /\ total_processed = 0
    /\ calls = << >> /\ RunHistory
    /\ IdleRankings /\ IdleScraper /\ IdleSetup /\ IdleScript

SpecBatch == InitBatch /\ [][NextRun]_vars /\ WF_vars(NextRun)

(***************************************************************************)
(* Claims about run and process_batch                                      *)
(***************************************************************************)

\* C1: run(total_limit=None) terminates for every finite database, and when it
\* returns no processed review is left without a flavor_extractions row
\* (get_unlinked_reviews would return nothing).
C1_RunTerminatesAllLinked ==
    <>(total_limit # None
       \/ (pc = "returned" /\ get_unlinked_reviews(db, BatchSize) = << >>))

\* C6: a commit is issued after every 10th review of the batch and once more after
\* the last review: the open transaction never holds the writes of more than 10
\* reviews, the review after a 10th one starts on an empty transaction, and when
\* process_batch has returned the open transaction holds no uncommitted write.
C6_CommitBoundaries ==
    /\ Cardinality(owners) <= CommitEvery
    /\ (pc = "link" /\ i > 1 /\ (i - 1) % CommitEvery = 0) => (owners = {} /\ db = committed)
    /\ pc \in {"run", "returned"} => (owners = {} /\ db = committed /\ ~aborted)

\* C6 witness: the 10th review of a batch has been linked and the commit is due; the
\* open transaction holds the writes of 10 reviews
C6_TenReviewsPending ==
    /\ pc = "commit" /\ i = CommitEvery /\ Len(reviews) > CommitEvery
    /\ Cardinality(owners) = CommitEvery
    /\ db # committed

\* C12: the value run returns, logged as 'Total reviews linked', equals the number
\* of distinct processed reviews link_single_review was applied to during the run:
\* no review is counted more than once.
C12_TotalCountsDistinctReviews ==
    pc = "returned" => total_processed = Cardinality(last.applied)

\* the rows link_single_review writes for review r are in tables: its
\* flavor_extractions row, its coffee_mentions row when the review names a roaster,
\* and the ids in its processed_reviews row
WritesPresent(tables, r) ==
    /\ \E n \in 1..Len(tables.flavor_extractions) :
          tables.flavor_extractions[n].processed_review_id = r
    /\ nlp_extractions[r].roasters # << >> =>
          \E n \in 1..Len(tables.coffee_mentions) :
              tables.coffee_mentions[n].post_id = <<"post", r>>
    /\ \E pr \in tables.processed_reviews : pr.id = r /\ pr.mentioned_flavor_ids # << >>

\* C14: a failure while linking one review is confined to that review: after a
\* rollback caused by an error on review r, the flavor_extractions, coffee_mentions
\* and processed_reviews writes made for the reviews handled earlier in the same
\* process_batch call are still present, and they are committed by that call.
C14_FailureConfined ==
    \A r \in last.clean :
        /\ WritesPresent(db, r)
        /\ pc \in {"run", "returned"} => WritesPresent(committed, r)


(***************************************************************************)
(* find_or_create_entity called on its own                                 *)
(***************************************************************************)

\* conn.commit() by the linker's caller
ConnCommit ==
    /\ pc = "idle"
    /\ db # committed \/ aborted
    /\ \E st \in {Commit(LinkerState(0))} : Install(st)
    /\ UNCHANGED <<pc, reviews, i, total_processed, reference, others>>

\* a call of find_or_create_entity, logged with what it returned
FindOrCreateEntityCall(entity_name, entity_type, found) ==
    /\ Install(found.st)
    /\ calls' = Append(calls, [op          |-> "find_or_create_entity",
                               entity_name |-> entity_name,
                               entity_type |-> entity_type,
                               normalized  |-> normalize_name(entity_name),
                               id          |-> found.id,
                               inserted    |-> Len(found.st.db.entities) > Len(db.entities)])

\* bound: the calls of one behaviour that are logged
MaxCalls == 3

FindOrCreateEntity(entity_name, entity_type) ==
    /\ pc = "idle"
    /\ Len(calls) < MaxCalls
    /\ \E failAt \in FailChoices \cap 0..1 :
       \E found \in {find_or_create_entity(LinkerState(failAt), entity_name, entity_type)} :
          FindOrCreateEntityCall(entity_name, entity_type, found)
    /\ UNCHANGED <<pc, reviews, i, total_processed, reference, last, today,
                   flavor_rankings, raw_posts, step, trace, script>>

\* the names and types the calls are made with
EntityNames ==
    {<<"a", "b", "c", "d">>, <<"a", "b", "c", "d", "e">>, <<"A", "b", "-", "c">>}

EntityTypes == {"roaster", "cafe"}

\* the entities table as a linker finds it: empty, or holding one roaster
EntityTables ==
    {EmptyTables,
     [EmptyTables EXCEPT !.entities =
         <<[id |-> 1, name |-> <<"A", "b", "c">>, slug |-> <<"a", "b", "c">>,
            entity_type |-> "roaster"]>>]}

InitEntity ==
    /\ \E tables \in EntityTables : LinkerInit(FlavorTable, tables)
    /\ nlp_extractions = << >>
    /\ faults \in 0..MaxFaults
    /\ IdleRun /\ IdleHistory /\ IdleRankings /\ IdleScraper /\ IdleSetup /\ IdleScript

NextEntity ==
    \/ \E entity_name \in EntityNames, entity_type \in EntityTypes :
          FindOrCreateEntity(entity_name, entity_type)
    \/ ConnCommit

SpecEntity == InitEntity /\ [][NextEntity]_vars

\* C3: after any sequence of find_or_create_entity calls the entities table holds
\* at most one row per slug, and any two successful calls with the same entity_type
\* whose names have the same normalize_name value return the same entity id, with
\* at most one row inserted for them.
C3_EntitiesDeduplicated ==
    /\ \A m, n \in 1..Len(db.entities) :
          db.entities[m].slug = db.entities[n].slug => m = n
    /\ \A m, n \in 1..Len(calls) :
          (/\ calls[m].id # None /\ calls[n].id # None
           /\ calls[m].entity_type = calls[n].entity_type
           /\ calls[m].normalized = calls[n].normalized)
          => /\ calls[m].id = calls[n].id
             /\ (calls[m].inserted /\ calls[n].inserted) => m = n

\* the entries of the cache whose entity has type entity_type
TypeEntries(cache, entity_type) ==
    {n \in 1..Len(cache) : cache[n].val.entity_type = entity_type}

\* entry n has the largest similarity to normalized among the entries of its type
MaxScore(cache, n, normalized) ==
    \A m \in TypeEntries(cache, cache[n].val.entity_type) :
        ~FracGT(fuzzy_match_score(normalized, cache[m].key),
                fuzzy_match_score(normalized, cache[n].key))

\* some entry of the type is more than 0.85 similar to normalized
SomeAbove(cache, entity_type, normalized) ==
    \E n \in TypeEntries(cache, entity_type) :
        FracGT(fuzzy_match_score(normalized, cache[n].key), <<85, 100>>)

\* what C4 says of the call c made on the cache and table before, leaving those after
FuzzyContract(c, cacheBefore, rowsBefore, cacheAfter, rowsAfter) ==
    ~DictHas(cacheBefore, c.normalized) =>
        IF SomeAbove(cacheBefore, c.entity_type, c.normalized)
        THEN /\ \E n \in TypeEntries(cacheBefore, c.entity_type) :
                   /\ cacheBefore[n].val.id = c.id
                   /\ MaxScore(cacheBefore, n, c.normalized)
             /\ rowsAfter = rowsBefore
             /\ cacheAfter = cacheBefore
        ELSE c.id # None =>
             /\ DictHas(cacheAfter, c.normalized)
             /\ DictGet(cacheAfter, c.normalized).id = c.id
             /\ \E k \in 1..Len(rowsAfter) :
                   /\ rowsAfter[k].id = c.id
                   /\ rowsAfter[k].slug = EntitySlug(c.entity_name)
                   /\ rowsAfter[k].name = c.entity_name

\* C4: when the normalized name is not a cache key and some cached entity of type t
\* is more than 0.85 similar, find_or_create_entity(name, t) returns the id of a
\* type-t cached entity of maximum similarity and writes nothing to the entities
\* table or the cache; when every type-t cached entity scores 0.85 or less, the call
\* (if it does not raise) upserts an entities row and adds it to the cache under the
\* normalized name.
C4_FuzzyMatching ==
    [][Len(calls') = Len(calls) + 1 =>
         FuzzyContract(calls'[Len(calls')], entity_cache, db.entities,
                       entity_cache', db'.entities)]_vars

\* C4 witness: a name that is not a cache key has been matched to a cached entity
\* more than 0.85 similar, and another name, at most 0.85 similar to every cached
\* entity of its type, has been inserted
C4_MatchedAndCreated ==
    \E m, n \in 1..Len(calls) :
        /\ m < n
        /\ calls[m].id # None /\ ~calls[m].inserted
        /\ calls[m].normalized = <<"a", "b", "c", "d">>
        /\ ~DictHas(entity_cache, calls[m].normalized)
        /\ calls[n].inserted
        /\ calls[n].normalized = <<"a", "b", "c", "d", "e">>

\* C15: caches never point at undone rows: each id stored in entity_cache or
\* origin_cache identifies a row of the entities or origins table as the linker's
\* connection sees it (committed or in the open transaction), also after a rollback.
C15_CachesPointAtRows ==
    /\ \A n \in 1..Len(entity_cache) :
          \E k \in 1..Len(db.entities) : db.entities[k].id = entity_cache[n].val.id
    /\ \A n \in 1..Len(origin_cache) :
          \E k \in 1..Len(db.origins) : db.origins[k].id = origin_cache[n].val.id

\* C16: find_or_create_entity(name, t) never returns the id of an entity whose
\* entity_type in the entities table differs from t, whether the id comes from an
\* exact cache hit, a fuzzy match or the slug upsert.
C16_ReturnedEntityHasType ==
    \A n \in 1..Len(calls) : \A k \in 1..Len(db.entities) :
        (calls[n].id # None /\ db.entities[k].id = calls[n].id)
        => db.entities[k].entity_type = calls[n].entity_type

(***************************************************************************)
(* link_single_review called on its own                                    *)
(***************************************************************************)

\* a call of link_single_review, logged; clean: no statement of the call raised
LinkSingleReviewCall(review, st) ==
    /\ Install(st)
    /\ calls' = Append(calls, [op     |-> "link_single_review",
                               review |-> review.id,
                               clean  |-> ~aborted /\ ~(st.failAt > 0 /\ st.n >= st.failAt)])

\* bound: the link_single_review calls of one behaviour
MaxLinkCalls == 3

LinkSingleReview(processed_review_id) ==
    /\ pc = "idle"
    /\ Len(calls) < MaxLinkCalls
    /\ \E review \in {pr \in db.processed_reviews : pr.id = processed_review_id} :
       \E failAt \in FailChoices :
       \E st \in {link_single_review(LinkerState(failAt), review)} :
          LinkSingleReviewCall(review, st)
    /\ UNCHANGED <<pc, reviews, i, total_processed, reference, last, today,
                   flavor_rankings, raw_posts, step, trace, script>>

\* bound: the processed reviews link_single_review is called on
MaxLinkReviews == 2

\* the extractions of those reviews: known, synonym and unknown flavors, roaster names
\* near and far from the stored roaster, an origin
LinkExtractions ==
    {[flavors  |-> <<Flavor(<<"a">>, 5, 8), Flavor(<<" ", "B">>, -5, 8),
                     Flavor(<<"e">>, 5, 8)>>,
      roasters |-> <<<<"a", "b", "c", "d">>, <<"a", "b", "c", "d", "e">>>>,
      origins  |-> <<<<"a", "b">>>>],
     [flavors  |-> <<Flavor(<<"C">>, 5, 4)>>,
      roasters |-> <<<<"a", "b", "c", "d", "e">>>>,
      origins  |-> << >>],
     [flavors  |-> <<Flavor(<<"a">>, 5, 8), Flavor(<<"a">>, 5, 8)>>,
      roasters |-> <<<<"a", "b", "c", "d">>>>,
      origins  |-> <<<<"A", "b">>, <<"a", "b">>>>]}

InitLink ==
    /\ nlp_extractions \in [1..MaxLinkReviews -> LinkExtractions]
    /\ \E tables \in EntityTables :
          LinkerInit(FlavorTable,
                     [tables EXCEPT !.processed_reviews =
                         {ProcessedReview(r) : r \in 1..MaxLinkReviews}])
    /\ faults = 0
    /\ IdleRun /\ IdleHistory /\ IdleRankings /\ IdleScraper /\ IdleSetup /\ IdleScript

NextLink ==
    \/ \E processed_review_id \in 1..MaxLinkReviews : LinkSingleReview(processed_review_id)
    \/ ConnCommit

SpecLink == InitLink /\ [][NextLink]_vars

MaxTerms == 2

\* the rows flavor_terms is filled from (the id is the row's position)
TermRows ==
    {[term |-> <<"A", "b">>, normalized_term |-> <<"a", "b">>, synonyms |-> <<<<"C">>>>],
     [term |-> <<"A", "-", "b">>, normalized_term |-> <<"a", "b">>, synonyms |-> << >>],
     [term |-> <<" ", "a">>, normalized_term |-> <<" ", "a">>, synonyms |-> << >>],
     [term |-> <<"c">>, normalized_term |-> <<"c">>, synonyms |-> <<<<"d">>, <<"A", "B">>>>],
     [term |-> <<"d", " ", "e">>, normalized_term |-> <<"d", "e">>, synonyms |-> <<<<"D">>>>]}

\* the terms that are looked up
LookupTerms ==
    {<<"a", "b">>, <<"A", "B">>, <<" ", "a", "B", " ">>, <<"a", "-", "b">>, <<"C">>,
     <<" ", "a">>, <<"a">>, <<"d">>, <<"D", " ", "E">>, <<"d", "e", " ">>, <<"e">>, << >>}

\* a flavor_terms table of the given rows, with serial ids
TermTable(rows) ==
    [n \in 1..Len(rows) |->
        [id |-> n, term |-> rows[n].term, normalized_term |-> rows[n].normalized_term,
         synonyms |-> rows[n].synonyms]]

InitFlavor ==
    /\ \E len \in 0..MaxTerms :
       \E rows \in [1..len -> TermRows] : LinkerInit(TermTable(rows), EmptyTables)
    /\ nlp_extractions = << >>
    /\ faults = 0
    /\ IdleRun /\ IdleHistory /\ IdleRankings /\ IdleScraper /\ IdleSetup /\ IdleScript

\* a call of find_flavor_id, recorded with what it returned
FindFlavorId(flavor_term) ==
    /\ pc = "idle"
    /\ last' = [op |-> "find_flavor_id", flavor_term |-> flavor_term,
                id |-> find_flavor_id(flavor_cache, flavor_term)]
    /\ UNCHANGED <<db, committed, aborted, seq, entity_cache, origin_cache, owners,
                   faults, pc, reviews, i, total_processed, reference, calls, today,
                   flavor_rankings, raw_posts, step, trace, script>>

NextFlavor == \E flavor_term \in LookupTerms : FindFlavorId(flavor_term)

SpecFlavor == InitFlavor /\ [][NextFlavor]_vars

\* the row's term, normalized_term or one of its synonyms equals t, ignoring case
TermMatches(row, t) ==
    \/ Lower(row.term) = Lower(t)
    \/ Lower(row.normalized_term) = Lower(t)
    \/ \E n \in 1..Len(row.synonyms) : Lower(row.synonyms[n]) = Lower(t)

\* C5: find_flavor_id(t) returns the id of a flavor_terms row whose term,
\* normalized_term or one of whose synonyms equals the trimmed t case-insensitively,
\* and returns None exactly when no loaded row has such a term, normalized_term or
\* synonym.
C5_FlavorLookupAgrees ==
    last.op = "find_flavor_id" =>
        /\ last.id # None =>
              \E n \in 1..Len(flavor_terms) :
                  /\ flavor_terms[n].id = last.id
                  /\ TermMatches(flavor_terms[n], Strip(last.flavor_term))
        /\ last.id = None <=>
              ~\E n \in 1..Len(flavor_terms) :
                  TermMatches(flavor_terms[n], Strip(last.flavor_term))

\* C5 witness: a term with surrounding blanks and upper case has been found through a
\* synonym, and the table also holds a row it does not match
C5_FoundBySynonym ==
    /\ last.op = "find_flavor_id"
    /\ last.flavor_term = <<" ", "a", "B", " ">>
    /\ last.id # None
    /\ Len(flavor_terms) = 2
    /\ \E n \in 1..Len(flavor_terms) :
          /\ flavor_terms[n].id = last.id
          /\ Lower(flavor_terms[n].term) # <<"a", "b">>
          /\ Lower(flavor_terms[n].normalized_term) # <<"a", "b">>

(***************************************************************************)
(* reddit_scraper.save_submission                                          *)
(***************************************************************************)

\* an attribute that may be None is << >> (None) or <<value>>
Truthy(attr) == attr # << >> /\ attr[1] # ""

\* the row save_submission inserts for sub
RawPostRow(sub) ==
    [id        |-> sub.id,
     source    |-> "reddit",
     title     |-> sub.title,
     body      |-> IF Truthy(sub.selftext) THEN sub.selftext[1] ELSE "",
     url       |-> sub.url,
     author    |-> IF sub.author # << >> THEN sub.author[1] ELSE "[deleted]",
     posted_at |-> sub.created_utc]

\* INSERT INTO raw_posts without ON CONFLICT (id) DO NOTHING
InsertRawPostPlain(rows, row) == Append(rows, row)

\* INSERT INTO raw_posts ... ON CONFLICT (id) DO NOTHING
InsertRawPost(rows, row) ==
    IF \E n \in 1..Len(rows) : rows[n].id = row.id THEN rows ELSE Append(rows, row)

\* where save_submission can raise: nowhere, in datetime.fromtimestamp, in execute,
\* in commit, or in the print after the commit (sub.title is None)
SaveOutcomes(sub) ==
    IF sub.title = << >> THEN {"fromtimestamp", "execute", "commit", "print"}
    ELSE {"none", "fromtimestamp", "execute", "commit"}

\* save_submission(sub): the row is stored unless the exception came before the
\* commit had finished; the except block rolls back
SaveSubmission(sub, raised) ==
    /\ pc = "idle"
    /\ raw_posts' = IF raised \in {"none", "print"}
                    THEN InsertRawPost(raw_posts, RawPostRow(sub))
                    ELSE raw_posts
    /\ last' = [op |-> "save_submission", id |-> sub.id, title |-> sub.title,
                raised |-> raised,
                present |-> \E n \in 1..Len(raw_posts) : raw_posts[n].id = sub.id]
    /\ UNCHANGED <<db, committed, aborted, seq, entity_cache, origin_cache, owners,
                   faults, pc, reviews, i, total_processed, reference, calls, today,
                   flavor_rankings, step, trace, script>>

\* bound: the submission ids Reddit hands out
MaxSubmissions == 2

\* the submissions Reddit may return
SubmissionKinds ==
    {[title |-> <<"t">>, selftext |-> <<"s">>, author |-> <<"x">>],
     [title |-> <<"u">>, selftext |-> <<"">>, author |-> << >>],
     [title |-> << >>, selftext |-> << >>, author |-> <<"x">>]}

Submissions ==
    {[id |-> n, title |-> k.title, selftext |-> k.selftext, url |-> "url",
      author |-> k.author, created_utc |-> 7] : n \in 1..MaxSubmissions, k \in SubmissionKinds}

InitScrape ==
    /\ raw_posts = << >>
    /\ IdleLinker /\ IdleRun /\ IdleHistory /\ IdleRankings /\ IdleSetup /\ IdleScript

NextScrape == \E sub \in Submissions : \E raised \in SaveOutcomes(sub) : SaveSubmission(sub, raised)

SpecScrape == InitScrape /\ [][NextScrape]_vars

\* C10: raw_posts holds at most one row per submission id, and saving a submission
\* whose id is already present leaves that row and every other row unchanged.
C10_RawPostsStoredOnce ==
    /\ [](\A m, n \in 1..Len(raw_posts) : raw_posts[m].id = raw_posts[n].id => m = n)
    /\ [][(/\ last'.op = "save_submission"
           /\ \E n \in 1..Len(raw_posts) : raw_posts[n].id = last'.id)
          => raw_posts' = raw_posts]_vars

\* C10 witness: a submission whose id was present has been saved again without an
\* exception, with another title than the stored row's, and another row is stored too
C10_SavedAgain ==
    /\ last.op = "save_submission" /\ last.present /\ last.raised = "none"
    /\ Len(raw_posts) = 2
    /\ \E n \in 1..Len(raw_posts) :
          /\ raw_posts[n].id = last.id
          /\ raw_posts[n].title # last.title
          /\ raw_posts[n].body = "s"

(***************************************************************************)
(* setup_and_run.main                                                      *)
(*   step  - the step main is at, whether it is running, and what main     *)
(*           runs in: whether DATABASE_URL is set, whether schema.sql      *)
(*           exists, the tables of the database                            *)
(*   trace - the steps started and how each ended, in order                *)
(***************************************************************************)

\* check_tables_exist's required_tables
RequiredTables ==
    {"raw_posts", "processed_reviews", "flavor_terms", "entities", "origins",
     "coffee_products", "flavor_extractions", "coffee_mentions", "product_reviews",
     "nlp_extractions"}

\* the steps main wraps in try/except, in the order of the code
TrySteps == <<"scrape", "nlp", "link", "aggregate">>

\* the position after try step k
AfterTry(k) == IF k < Len(TrySteps) THEN TrySteps[k + 1] ELSE "counts"

setupIdle == <<flavor_terms, nlp_extractions, db, committed, aborted, seq, flavor_cache,
               entity_cache, origin_cache, owners, faults, pc, total_limit, reviews, i,
               total_processed, calls, last, today, flavor_rankings, raw_posts, script>>

\* main up to step 0: the DATABASE_URL test
MainStart ==
    /\ step.at = "start"
    /\ IF step.database_url
       THEN step' = [step EXCEPT !.at = "schema"] /\ trace' = trace
       ELSE step' = [step EXCEPT !.at = "returned"]
            /\ trace' = Append(trace, <<"main", "DATABASE_URL not set">>)
    /\ UNCHANGED setupIdle

\* step 0: run_sql_file('schema.sql') if the file exists, else a warning
SchemaStart ==
    /\ step.at = "schema" /\ ~step.running
    /\ IF step.schema_sql
       THEN step' = [step EXCEPT !.running = TRUE]
            /\ trace' = Append(trace, <<"schema", "started">>)
       ELSE step' = [step EXCEPT !.at = "check"]
            /\ trace' = Append(trace, <<"schema", "skipped">>)
    /\ UNCHANGED setupIdle

\* run_sql_file ends: committed (the tables are those the file creates), or the
\* exception is raised again and main ends with it
SchemaEnd ==
    /\ step.at = "schema" /\ step.running
    /\ \/ \E created \in {{}, RequiredTables} :
             /\ step' = [step EXCEPT !.at = "check", !.running = FALSE,
                                      !.tables = @ \cup created]
             /\ trace' = Append(trace, <<"schema", "finished">>)
       \/ /\ step' = [step EXCEPT !.at = "raised", !.running = FALSE]
          /\ trace' = Append(trace, <<"schema", "raised">>)
    /\ UNCHANGED setupIdle

\* check_tables_exist() is called
CheckStart ==
    /\ step.at = "check" /\ ~step.running
    /\ step' = [step EXCEPT !.running = TRUE]
    /\ trace' = Append(trace, <<"check", "started">>)
    /\ UNCHANGED setupIdle

\* check_tables_exist returns (main returns on False), or connecting raises
CheckEnd ==
    /\ step.at = "check" /\ step.running
    /\ \/ /\ RequiredTables \subseteq step.tables
          /\ step' = [step EXCEPT !.at = TrySteps[1], !.running = FALSE]
          /\ trace' = Append(trace, <<"check", "finished">>)
       \/ /\ ~(RequiredTables \subseteq step.tables)
          /\ step' = [step EXCEPT !.at = "returned", !.running = FALSE]
          /\ trace' = Append(trace, <<"check", "false">>)
       \/ /\ step' = [step EXCEPT !.at = "raised", !.running = FALSE]
          /\ trace' = Append(trace, <<"check", "raised">>)
    /\ UNCHANGED setupIdle

\* steps 1 to 4: the try block is entered
TryStart(k) ==
    /\ step.at = TrySteps[k] /\ ~step.running
    /\ step' = [step EXCEPT !.running = TRUE]
    /\ trace' = Append(trace, <<TrySteps[k], "started">>)
    /\ UNCHANGED setupIdle

\* TryEnd whose except block does not return
TryEndGoesOn(k) ==
    /\ step.at = TrySteps[k] /\ step.running
    /\ \/ trace' = Append(trace, <<TrySteps[k], "finished">>)
       \/ trace' = Append(trace, <<TrySteps[k], "raised">>)
    /\ step' = [step EXCEPT !.at = AfterTry(k), !.running = FALSE]
    /\ UNCHANGED setupIdle

\* steps 1 to 4: the try block ends, or its exception is logged and main returns
TryEnd(k) ==
    /\ step.at = TrySteps[k] /\ step.running
    /\ \/ /\ step' = [step EXCEPT !.at = AfterTry(k), !.running = FALSE]
          /\ trace' = Append(trace, <<TrySteps[k], "finished">>)
       \/ /\ step' = [step EXCEPT !.at = "returned", !.running = FALSE]
          /\ trace' = Append(trace, <<TrySteps[k], "raised">>)
    /\ UNCHANGED setupIdle

\* get_table_counts(), then the closing log lines
Counts ==
    /\ step.at = "counts"
    /\ \/ /\ step' = [step EXCEPT !.at = "returned"]
          /\ trace' = Append(trace, <<"main", "SETUP COMPLETE">>)
       \/ /\ step' = [step EXCEPT !.at = "raised"]
          /\ trace' = Append(trace, <<"counts", "raised">>)
    /\ UNCHANGED setupIdle

\* the databases main is started on: no table, one table missing, all tables
InitialTables == {{}, RequiredTables} \cup {RequiredTables \ {t} : t \in RequiredTables}

InitSetup ==
    /\ step \in [at : {"start"}, running : {FALSE}, database_url : BOOLEAN, schema_sql : BOOLEAN,
                 tables : InitialTables]
    /\ trace = << >>
    /\ raw_posts = << >>
    /\ IdleLinker /\ IdleRun /\ IdleHistory /\ IdleRankings /\ IdleScript

NextSetup ==
    \/ MainStart
    \/ SchemaStart
    \/ SchemaEnd
    \/ CheckStart
    \/ CheckEnd
    \/ \E k \in 1..Len(TrySteps) : TryStart(k)
    \/ \E k \in 1..Len(TrySteps) : TryEnd(k)
    \/ Counts

SpecSetup == InitSetup /\ [][NextSetup]_vars

\* the steps in the order the claim gives them
StepOrder == <<"schema", "check", "scrape", "nlp", "link", "aggregate">>

\* step s has finished before position n of the trace
FinishedBefore(s, n) == \E m \in 1..(n - 1) : trace[m] = <<s, "finished">>

\* schema creation was skipped before position n of the trace
SkippedBefore(n) == \E m \in 1..(n - 1) : trace[m] = <<"schema", "skipped">>

\* C7 as stated: a step starts only after every earlier step finished without
\* raising (the table check returning True), and 'SETUP COMPLETE' is logged only if
\* all six steps finished.
C7_StepsInOrder ==
    /\ \A n \in 1..Len(trace) : \A k \in 1..Len(StepOrder) :
          trace[n] = <<StepOrder[k], "started">>
          => \A j \in 1..(k - 1) : FinishedBefore(StepOrder[j], n)
    /\ \A n \in 1..Len(trace) :
          trace[n] = <<"main", "SETUP COMPLETE">>
          => \A k \in 1..Len(StepOrder) : FinishedBefore(StepOrder[k], n)

\* C7 amended: as C7, except that schema creation is skipped when schema.sql does
\* not exist: a step starts only after every earlier step finished without raising,
\* schema creation having finished or been skipped, and 'SETUP COMPLETE' is logged
\* only if every step finished, schema creation having finished or been skipped.
C7_StepsInOrderSchemaOptional ==
    /\ \A n \in 1..Len(trace) : \A k \in 1..Len(StepOrder) :
          trace[n] = <<StepOrder[k], "started">>
          => \A j \in 1..(k - 1) :
                \/ FinishedBefore(StepOrder[j], n)
                \/ j = 1 /\ SkippedBefore(n)
    /\ \A n \in 1..Len(trace) :
          trace[n] = <<"main", "SETUP COMPLETE">>
          => \A k \in 1..Len(StepOrder) :
                \/ FinishedBefore(StepOrder[k], n)
                \/ k = 1 /\ SkippedBefore(n)

\* C7 witness: 'SETUP COMPLETE' has been logged by a main that skipped schema
\* creation and ran the five other steps
C7_CompleteWithoutSchema ==
    /\ Len(trace) >= 1
    /\ trace[Len(trace)] = <<"main", "SETUP COMPLETE">>
    /\ trace[1] = <<"schema", "skipped">>
    /\ \A k \in 2..Len(StepOrder) : FinishedBefore(StepOrder[k], Len(trace))

(***************************************************************************)
(* DataAggregator.compute_flavor_rankings                                  *)
(* Sentiments and confidence scores are in tenths (5 is 0.5), dates in     *)
(* days.                                                                   *)
(***************************************************************************)

\* the INTERVAL of a period, in days
Interval(period) ==
    IF period = "week" THEN 7 ELSE IF period = "month" THEN 30 ELSE 365

RECURSIVE GCD(_, _)
GCD(x, y) == IF y = 0 THEN x ELSE GCD(y, x % y)

Abs(x) == IF x < 0 THEN 0 - x ELSE x

\* the value sum / count as a fraction in lowest terms
Fraction(sum, count) ==
    <<sum \div GCD(Abs(sum), count), count \div GCD(Abs(sum), count)>>

\* the sum of the sentiments of the rows at the positions S
RECURSIVE SumSentiment(_, _)
SumSentiment(rows, S) ==
    IF S = {} THEN 0
    ELSE Only({rows[n].sentiment + SumSentiment(rows, S \ {n}) : n \in {CHOOSE m \in S : TRUE}})

\* FROM flavor_extractions fe JOIN processed_reviews pr ... WHERE fe.created_at >=
\* CURRENT_DATE - INTERVAL AND fe.confidence_score > 0.5: the positions selected
Selected_fe(tables, day, period) ==
    {n \in 1..Len(tables.flavor_extractions) :
        /\ \E pr \in tables.processed_reviews :
              pr.id = tables.flavor_extractions[n].processed_review_id
        /\ tables.flavor_extractions[n].created_at >= day - Interval(period)
        /\ tables.flavor_extractions[n].confidence_score > 5}

\* the SELECT's row for the group of flavor_id, whose rows are at the positions G
GroupRow(rows, G, flavor_id, day, period) ==
    [flavor_id         |-> flavor_id,
     period_start      |-> day - Interval(period),
     period_end        |-> day,
     period_type       |-> period,
     mention_count     |-> Cardinality(G),
     unique_products   |-> Cardinality({rows[n].post_id : n \in G}),
     avg_sentiment     |-> Fraction(SumSentiment(rows, G), Cardinality(G)),
     positive_mentions |-> Cardinality({n \in G : rows[n].sentiment > 3}),
     negative_mentions |-> Cardinality({n \in G : 0 - 3 > rows[n].sentiment})]

\* the rows have the same (flavor_id, period_start, period_end, period_type)
SameRankingKey(r, q) ==
    /\ r.flavor_id = q.flavor_id /\ r.period_start = q.period_start
    /\ r.period_end = q.period_end /\ r.period_type = q.period_type

\* the INSERT of one row without the ON CONFLICT clause
UpsertRankingPlainInsert(rankings, row) ==
    Append(rankings,
           [id |-> Len(rankings) + 1, popularity_rank |-> None] @@ row)

\* the INSERT of one row: ON CONFLICT (flavor_id, period_start, period_end,
\* period_type) DO UPDATE SET mention_count, avg_sentiment; ids are serial
UpsertRanking(rankings, row) ==
    IF \E n \in 1..Len(rankings) : SameRankingKey(rankings[n], row)
    THEN [n \in 1..Len(rankings) |->
            IF SameRankingKey(rankings[n], row)
            THEN [rankings[n] EXCEPT !.mention_count = row.mention_count,
                                     !.avg_sentiment = row.avg_sentiment]
            ELSE rankings[n]]
    ELSE Append(rankings,
                [id |-> Len(rankings) + 1, popularity_rank |-> None] @@ row)

\* the INSERT ... SELECT ... GROUP BY fe.flavor_term_id, for the flavors F still to
\* insert (the groups are taken in the order of the flavor id)
RECURSIVE UpsertGroups(_, _, _, _, _, _)
UpsertGroups(rankings, rows, S, F, day, period) ==
    IF F = {} THEN rankings
    ELSE Only({UpsertGroups(UpsertRanking(rankings,
                                          GroupRow(rows,
                                                   {n \in S : rows[n].flavor_term_id = f},
                                                   f, day, period)),
                            rows, S, F \ {f}, day, period) :
                 f \in {CHOOSE g \in F : \A h \in F : g <= h}})

\* ORDER BY mention_count DESC over the positions S of rankings
RECURSIVE OrderByMentionCountDesc(_, _)
OrderByMentionCountDesc(rankings, S) ==
    IF S = {} THEN << >>
    ELSE Only({<<first>> \o OrderByMentionCountDesc(rankings, S \ {first}) :
                 first \in {CHOOSE n \in S :
                              \A m \in S : rankings[m].mention_count <= rankings[n].mention_count}})

\* RANK() with the order reversed (ORDER BY mention_count ASC)
RankAscending(rankings, ordered, k) ==
    Len(ordered) + 1 -
    (CHOOSE j \in 1..Len(ordered) :
        /\ rankings[ordered[j]].mention_count = rankings[ordered[k]].mention_count
        /\ \A h \in (j + 1)..Len(ordered) :
              rankings[ordered[h]].mention_count # rankings[ordered[k]].mention_count)

\* RANK() of the k-th row of the ordered partition: the position of its first peer
Rank(rankings, ordered, k) ==
    CHOOSE j \in 1..Len(ordered) :
        /\ rankings[ordered[j]].mention_count = rankings[ordered[k]].mention_count
        /\ \A h \in 1..(j - 1) :
              rankings[ordered[h]].mention_count # rankings[ordered[k]].mention_count

\* UPDATE flavor_rankings SET popularity_rank = ranked.rank, for the rows at the
\* positions ordered (those of the period type whose period_end is CURRENT_DATE)
SetRanks(rankings, ordered) ==
    [n \in 1..Len(rankings) |->
        IF \E k \in 1..Len(ordered) : ordered[k] = n
        THEN [rankings[n] EXCEPT !.popularity_rank =
                 Rank(rankings, ordered, CHOOSE k \in 1..Len(ordered) : ordered[k] = n)]
        ELSE rankings[n]]

\* the positions of the rows the second statement ranks
RankedRows(rankings, day, period) ==
    {n \in 1..Len(rankings) :
        rankings[n].period_type = period /\ rankings[n].period_end = day}

\* the two statements of compute_flavor_rankings
RankingsAfter(rankings, tables, day, period) ==
    Only({SetRanks(upserted,
                   OrderByMentionCountDesc(upserted, RankedRows(upserted, day, period))) :
            upserted \in {UpsertGroups(rankings, tables.flavor_extractions,
                                       Selected_fe(tables, day, period),
                                       {tables.flavor_extractions[n].flavor_term_id :
                                           n \in Selected_fe(tables, day, period)},
                                       day, period)}})

\* the periods run_all_aggregations computes
Periods == {"week", "month"}

\* compute_flavor_rankings(period): both statements and the commit, or a statement
\* raises and nothing is committed.  last.fresh[p]: compute_flavor_rankings(p) has
\* committed today and flavor_extractions has not changed since.
ComputeFlavorRankings(period, raised) ==
    /\ pc = "idle"
    /\ flavor_rankings' = IF raised THEN flavor_rankings
                          ELSE RankingsAfter(flavor_rankings, committed, today, period)
    /\ last' = [op |-> "compute_flavor_rankings", period |-> period, raised |-> raised,
                fresh |-> IF raised THEN last.fresh
                          ELSE [last.fresh EXCEPT ![period] = TRUE]]
    /\ UNCHANGED <<db, committed, aborted, seq, entity_cache, origin_cache, owners,
                   faults, pc, reviews, i, total_processed, reference, calls, today,
                   raw_posts, step, trace, script>>

\* bound: the flavor_extractions rows inserted in a behaviour
MaxExtractions == 1

\* the rows the linker inserts while the aggregator is in use (mention_text left out)
InsertedExtractions ==
    {[processed_review_id |-> 3, flavor_term_id |-> 3, sentiment |-> 5, confidence_score |-> 8],
     [processed_review_id |-> 3, flavor_term_id |-> 1, sentiment |-> 0 - 5, confidence_score |-> 8],
     [processed_review_id |-> 3, flavor_term_id |-> 2, sentiment |-> 5, confidence_score |-> 4]}

\* a committed INSERT INTO flavor_extractions by a linker (link_flavors)
InsertFlavorExtraction(e) ==
    /\ pc = "idle"
    /\ Cardinality({n \in 1..Len(db.flavor_extractions) :
                       db.flavor_extractions[n].created_at >= 0}) < MaxExtractions
    /\ ~FlavorExtractionConflict(db.flavor_extractions, e)
    /\ \E tables \in {[db EXCEPT !.flavor_extractions =
                         Append(@, [post_id |-> <<"post", e.processed_review_id>>,
                                    mention_order |-> 1, created_at |-> today] @@ e)]} :
          db' = tables /\ committed' = tables
    /\ last' = [op |-> "insert", fresh |-> [p \in Periods |-> FALSE]]
    /\ UNCHANGED <<aborted, seq, entity_cache, origin_cache, owners, faults, pc, reviews,
                   i, total_processed, reference, calls, today, flavor_rankings,
                   raw_posts, step, trace, script>>

\* bound: the days that pass
MaxDays == 1

\* midnight: CURRENT_DATE moves on
NextDay ==
    /\ pc = "idle"
    /\ today < MaxDays
    /\ today' = today + 1
    /\ last' = [op |-> "midnight", fresh |-> [p \in Periods |-> FALSE]]
    /\ UNCHANGED <<db, committed, aborted, seq, entity_cache, origin_cache, owners,
                   faults, pc, reviews, i, total_processed, reference, calls,
                   flavor_rankings, raw_posts, step, trace, script>>

\* a flavor_extractions row stored before the first day
StoredExtraction(processed_review_id, flavor_term_id, sentiment, created_at) ==
    [processed_review_id |-> processed_review_id,
     post_id |-> <<"post", processed_review_id>>, flavor_term_id |-> flavor_term_id,
     sentiment |-> sentiment, confidence_score |-> 8, mention_order |-> 1,
     created_at |-> created_at]

\* flavor_extractions as the aggregator finds it: empty, one row older than a week,
\* or two flavors with two rows of yesterday each
StoredExtractions ==
    {<< >>,
     <<StoredExtraction(2, 2, 5, 0 - 10)>>,
     <<StoredExtraction(1, 1, 5, 0 - 1), StoredExtraction(2, 1, 0 - 5, 0 - 1),
       StoredExtraction(1, 2, 2, 0 - 1), StoredExtraction(2, 2, 5, 0 - 1)>>}

InitRank ==
    /\ \E stored \in StoredExtractions :
          LinkerInit(FlavorTable,
                     [EmptyTables EXCEPT !.processed_reviews = {ProcessedReview(r) : r \in 1..3},
                                         !.flavor_extractions = stored])
    /\ nlp_extractions = << >>
    /\ faults = 0
    /\ today = 0 /\ flavor_rankings = << >>
    /\ last = [op |-> "none", fresh |-> [p \in Periods |-> FALSE]]
    /\ calls = << >>
    /\ IdleRun /\ IdleScraper /\ IdleSetup /\ IdleScript

NextRank ==
    \/ \E period \in Periods, raised \in BOOLEAN : ComputeFlavorRankings(period, raised)
    \/ \E e \in InsertedExtractions : InsertFlavorExtraction(e)
    \/ NextDay

SpecRank == InitRank /\ [][NextRank]_vars

\* C8: after compute_flavor_rankings(p), among the flavor_rankings rows with
\* period_type p and period_end equal to the current date, each row's
\* popularity_rank equals 1 plus the number of those rows with a strictly larger
\* mention_count.
C8_RankCountsLarger ==
    (last.op = "compute_flavor_rankings" /\ ~last.raised) =>
        \A n \in RankedRows(flavor_rankings, today, last.period) :
            flavor_rankings[n].popularity_rank =
                1 + Cardinality({m \in RankedRows(flavor_rankings, today, last.period) :
                                   flavor_rankings[m].mention_count >
                                       flavor_rankings[n].mention_count})

\* C8 witness: compute_flavor_rankings has ranked three rows of which two have the
\* same mention_count and rank 1, and the third a smaller one and rank 3
C8_TieAndSmaller ==
    /\ last.op = "compute_flavor_rankings" /\ ~last.raised
    /\ \E k, n, m \in RankedRows(flavor_rankings, today, last.period) :
          /\ k # n
          /\ flavor_rankings[k].mention_count = flavor_rankings[n].mention_count
          /\ flavor_rankings[n].mention_count > flavor_rankings[m].mention_count
          /\ flavor_rankings[k].popularity_rank = 1
          /\ flavor_rankings[m].popularity_rank = 3

\* what C9 compares: the rows, each with its key and the three computed columns
RankingColumns(rankings) ==
    [n \in 1..Len(rankings) |->
        [flavor_id       |-> rankings[n].flavor_id,
         period_start    |-> rankings[n].period_start,
         period_end      |-> rankings[n].period_end,
         period_type     |-> rankings[n].period_type,
         mention_count   |-> rankings[n].mention_count,
         avg_sentiment   |-> rankings[n].avg_sentiment,
         popularity_rank |-> rankings[n].popularity_rank]]

JsonPunctuation == {"{", "}", "[", "]", ":", ","}

\* the members of a JSON object: key : value, separated by commas; << >> when the
\* tokens are not that, else <<the dict>>
RECURSIVE JsonMembers(_, _)
JsonMembers(toks, data) ==
    IF Len(toks) < 3 \/ toks[1] \in JsonPunctuation \/ toks[2] # ":"
       \/ toks[3] \in JsonPunctuation
    THEN << >>
    ELSE IF Len(toks) = 3 THEN <<(toks[1] :> toks[3]) @@ data>>
    ELSE IF toks[4] # "," THEN << >>
    ELSE JsonMembers(SubSeq(toks, 5, Len(toks)), (toks[1] :> toks[3]) @@ data)

\* json.loads(text): << >> when it raises, else <<the value>>; a value is an object
\* (a dict) or an array (a list, here the empty one)
JsonLoads(toks) ==
    IF toks = <<"[", "]">> THEN <<[type |-> "list", val |-> << >>]>>
    ELSE IF Len(toks) < 2 \/ toks[1] # "{" \/ toks[Len(toks)] # "}" THEN << >>
    ELSE IF Len(toks) = 2 THEN <<[type |-> "dict", val |-> << >>]>>
    ELSE LET members == JsonMembers(SubSeq(toks, 2, Len(toks) - 1), << >>)
         IN  IF members = << >> THEN << >>
             ELSE <<[type |-> "dict", val |-> members[1]]>>

\* json.loads, then the data.get calls: a list has no get, which raises like a
\* text that does not parse
ParsedDict(toks) ==
    LET loaded == JsonLoads(toks)
    IN  IF loaded # << >> /\ loaded[1].type = "dict" THEN <<loaded[1].val>> ELSE << >>

\* data.get(key, '')
DictGetOr(data, key, default) == IF key \in DOMAIN data THEN data[key] ELSE default

\* SELECT * FROM raw_reviews ORDER BY scraped_at, over a set of rows
RECURSIVE OrderByScrapedAt(_)
OrderByScrapedAt(rows) ==
    IF rows = {} THEN << >>
    ELSE LET first == CHOOSE r \in rows : \A q \in rows : r.scraped_at <= q.scraped_at
         IN  <<first>> \o OrderByScrapedAt(rows \ {first})

\* the row migrate_data inserts for record, whose json parsed to data
MigratedRow(record, data) ==
    [id         |-> record.id,
     source     |-> record.source,
     title      |-> DictGetOr(data, "title", ""),
     body       |-> DictGetOr(data, "body", ""),
     url        |-> DictGetOr(data, "url", ""),
     author     |-> DictGetOr(data, "author", ""),
     scraped_at |-> record.scraped_at]

\* INSERT INTO raw_posts ... ON CONFLICT (id) DO NOTHING RETURNING id
RawPostConflict(rows, row) == \E n \in 1..Len(rows) : rows[n].id = row.id

\* the except block of the loop: errors += 1, conn.rollback(), continue
MigrateError ==
    /\ script' = [script EXCEPT !.errors = @ + 1]
    /\ db' = committed
    /\ aborted' = FALSE

\* cur.execute(INSERT ...), cur.fetchone() and the counters
MigrateInsert(row, raises) ==
    IF raises THEN MigrateError
    ELSE IF RawPostConflict(db.raw_posts, row)
    THEN /\ script' = [script EXCEPT !.skipped = @ + 1]
         /\ UNCHANGED <<db, aborted>>
    ELSE /\ script' = [script EXCEPT !.migrated = @ + 1]
         /\ db' = [db EXCEPT !.raw_posts = Append(@, row)]
         /\ UNCHANGED aborted

migrateIdle == <<flavor_terms, nlp_extractions, seq, flavor_cache, entity_cache,
                 origin_cache, owners, total_limit, total_processed, calls, today,
                 flavor_rankings, raw_posts, step, trace>>

\* migrate_data up to the loop: old_records = cur.fetchall(), the counters at 0
MigrateFetch ==
    /\ pc = "migrate" /\ script.at = "fetch"
    /\ reviews' = OrderByScrapedAt(script.raw_reviews)
    /\ i' = 1
    /\ script' = [script EXCEPT !.at = "loop"]
    /\ last' = [op |-> "migrate_data",
                before |-> {db.raw_posts[n].id : n \in 1..Len(db.raw_posts)}]
    /\ UNCHANGED <<db, committed, aborted, faults, pc, migrateIdle>>

\* one pass of the loop, for old_records[i]; raises: cur.execute raises
MigrateRecord(raises) ==
    /\ pc = "migrate" /\ script.at = "loop" /\ i <= Len(reviews)
    /\ raises => faults > 0
    /\ IF ParsedDict(reviews[i].json) = << >>
       THEN ~raises /\ MigrateError
       ELSE MigrateInsert(MigratedRow(reviews[i], ParsedDict(reviews[i].json)[1]),
                          raises \/ aborted)
    /\ faults' = IF raises THEN faults - 1 ELSE faults
    /\ i' = i + 1
    /\ UNCHANGED <<committed, pc, reviews, last, migrateIdle>>

\* after the loop: conn.commit() and the report (a failed transaction is rolled
\* back by COMMIT)
MigrateCommit ==
    /\ pc = "migrate" /\ script.at = "loop" /\ i > Len(reviews)
    /\ IF aborted
       THEN db' = committed /\ UNCHANGED committed
       ELSE committed' = db /\ UNCHANGED db
    /\ aborted' = FALSE
    /\ script' = [script EXCEPT !.at = "reported"]
    /\ UNCHANGED <<faults, pc, reviews, i, last, migrateIdle>>

\* bound: the records of raw_reviews
MaxRecords == 3

\* the json texts of raw_reviews: an object with two keys, one with another key,
\* the empty object, an array, and a text cut short
RecordJsons ==
    {<<"{", "title", ":", "t", ",", "body", ":", "b", "}">>,
     <<"{", "url", ":", "u", "}">>,
     <<"{", "}">>,
     <<"[", "]">>,
     <<"{", "title", ":", "t">>}

\* a raw_reviews table of count records with the given json texts
RawReviews(count, jsons) ==
    {[id |-> n, source |-> "reddit", json |-> jsons[n], scraped_at |-> count - n] :
        n \in 1..count}

\* the raw_posts table migrate_data finds: empty, or holding record 1 already
MigrateTargets ==
    {<< >>,
     <<[id |-> 1, source |-> "reddit", title |-> "old", body |-> "", url |-> "",
        author |-> "", scraped_at |-> 0]>>}

InitMigrate ==
    /\ \E count \in 0..MaxRecords :
       \E jsons \in [1..count -> RecordJsons] :
          script = [at |-> "fetch", raw_reviews |-> RawReviews(count, jsons),
                    migrated |-> 0, skipped |-> 0, errors |-> 0]
    /\ \E rows \in MigrateTargets :
          /\ db = [raw_posts |-> rows]
          /\ committed = [raw_posts |-> rows]
    /\ aborted = FALSE
    /\ faults \in 0..MaxFaults
    /\ pc = "migrate" /\ reviews = << >> /\ i = 0
    /\ flavor_terms = << >> /\ nlp_extractions = << >>
    /\ seq = [entities |-> 0, origins |-> 0]
    /\ flavor_cache = << >> /\ entity_cache = << >> /\ origin_cache = << >>
    /\ owners = {} /\ total_limit = None /\ total_processed = 0
    /\ IdleHistory /\ IdleRankings /\ IdleScraper /\ IdleSetup

NextMigrate ==
    \/ MigrateFetch
    \/ \E raises \in BOOLEAN : MigrateRecord(raises)
    \/ MigrateCommit

SpecMigrate == InitMigrate /\ [][NextMigrate]_vars

\* C11: when migrate_data ends, the number of rows it added to raw_posts (present
\* after the final commit, absent before the run) equals the count it prints as
\* 'Migrated', whatever mix of records inserted, conflicted or raised.
C11_MigratedCountsAddedRows ==
    script.at = "reported" =>
        Cardinality({n \in 1..Len(committed.raw_posts) :
                        committed.raw_posts[n].id \notin last.before}) = script.migrated

(***************************************************************************)
(* link_flavors called on its own                                          *)
(***************************************************************************)

\* a call of link_flavors, logged with the list it returned and the table before
\* and after
LinkFlavorsCall(processed_review_id, extracted_flavors, linked) ==
    /\ Install(linked.st)
    /\ calls' = Append(calls, [op                  |-> "link_flavors",
                               processed_review_id |-> processed_review_id,
                               extracted_flavors   |-> extracted_flavors,
                               ids                 |-> linked.ids,
                               failAt              |-> linked.st.failAt,
                               aborted             |-> aborted,
                               before              |-> db.flavor_extractions,
                               after               |-> linked.st.db.flavor_extractions])

\* bound: the link_flavors calls of one behaviour
MaxFlavorCalls == 2

\* the lists link_flavors is called with: known terms, a synonym of an earlier
\* element's term, an unknown term, a context that is None, the empty list
FlavorLists ==
    {<<Flavor(<<"a">>, 5, 8), Flavor(<<" ", "B">>, -5, 8), Flavor(<<"e">>, 5, 8),
       Flavor(<<"C">>, 5, 4)>>,
     <<Flavor(<<"C">>, 5, 8), Flavor(<<"a">>, 5, 8)>>,
     <<[term |-> <<"a">>, sentiment |-> 5, confidence |-> 8, context |-> << >>],
       [term |-> <<"c">>, sentiment |-> 5, confidence |-> 8, context |-> <<"ctx">>]>>,
     << >>}

LinkFlavors(processed_review_id, extracted_flavors) ==
    /\ pc = "idle"
    /\ Len(calls) < MaxFlavorCalls
    /\ \E failAt \in FailChoices \cap 0..2 :
       \E linked \in {link_flavors([LinkerState(failAt) EXCEPT !.cur = processed_review_id],
                                   processed_review_id, <<"post", processed_review_id>>,
                                   extracted_flavors)} :
          LinkFlavorsCall(processed_review_id, extracted_flavors, linked)
    /\ UNCHANGED <<pc, reviews, i, total_processed, reference, last, today,
                   flavor_rankings, raw_posts, step, trace, script>>

InitFlavors ==
    /\ LinkerInit(FlavorTable,
                  [EmptyTables EXCEPT !.processed_reviews =
                      {ProcessedReview(r) : r \in 1..MaxLinkReviews}])
    /\ nlp_extractions = << >>
    /\ faults \in 0..MaxFaults
    /\ IdleRun /\ IdleHistory /\ IdleRankings /\ IdleScraper /\ IdleSetup /\ IdleScript

NextFlavors ==
    \/ \E processed_review_id \in 1..MaxLinkReviews, extracted_flavors \in FlavorLists :
          LinkFlavors(processed_review_id, extracted_flavors)
    \/ ConnCommit

SpecFlavors == InitFlavors /\ [][NextFlavors]_vars

\* the call c inserted the flavor_extractions row of element k: the row is in the
\* table after the call, past the rows that were there before (mention_order is the
\* 1-based position of the element's first occurrence)
InsertedBy(c, k) ==
    \E n \in (Len(c.before) + 1)..Len(c.after) :
        /\ c.after[n].processed_review_id = c.processed_review_id
        /\ c.after[n].mention_text = c.extracted_flavors[k].term
        /\ c.after[n].mention_order = k

\* the flavor ids of the elements from position k on that the call inserted a row
\* for, in list order
RECURSIVE InsertedIds(_, _)
InsertedIds(c, k) ==
    IF k > Len(c.extracted_flavors) THEN << >>
    ELSE (IF InsertedBy(c, k)
          THEN <<find_flavor_id(flavor_cache, c.extracted_flavors[k].term)>> ELSE << >>)
         \o InsertedIds(c, k + 1)

\* C18: link_flavors returns the flavor ids of exactly those elements of
\* extracted_flavors for which this call inserted a new flavor_extractions row, in
\* list order; elements whose term find_flavor_id does not know and elements whose
\* insert conflicted contribute nothing, and an empty list returns [] with no write.
C18_ReturnsCreatedFlavorIds ==
    \A n \in 1..Len(calls) :
        /\ calls[n].ids = InsertedIds(calls[n], 1)
        /\ Len(calls[n].after) = Len(calls[n].before) + Len(calls[n].ids)
        /\ \A k \in 1..Len(calls[n].extracted_flavors) :
              find_flavor_id(flavor_cache, calls[n].extracted_flavors[k].term) = None
              => ~InsertedBy(calls[n], k)
        /\ calls[n].extracted_flavors = << >> =>
              (calls[n].ids = << >> /\ calls[n].after = calls[n].before)

\* C18 witness: a call in which no statement raised has returned two ids for a list
\* of four elements: two inserted, one conflicting with a row the call had just
\* inserted, one with an unknown term; and an earlier call on the same review makes
\* another call's elements conflict with stored rows
C18_InsertedConflictedUnknown ==
    \E n \in 1..Len(calls) :
        /\ calls[n].failAt = 0 /\ ~calls[n].aborted
        /\ Len(calls[n].extracted_flavors) = 4
        /\ calls[n].ids = <<1, 2>>
        /\ Len(calls[n].after) = Len(calls[n].before) + 2
        /\ \E m \in 1..Len(calls) :
              /\ m > n
              /\ calls[m].processed_review_id = calls[n].processed_review_id
              /\ calls[m].extracted_flavors # << >>
              /\ calls[m].failAt = 0
              /\ calls[m].ids = << >>

\* element k of call c's list gets as far as cur.execute: its term is known and
\* building the arguments does not raise
ReachesExecute(c, k) ==
    /\ find_flavor_id(flavor_cache, c.extracted_flavors[k].term) # None
    /\ SentenceContext(c.extracted_flavors[k]) # << >>

\* the insert for element k of call c raised: building its arguments raised, or its
\* statement is the one of the call that failed
InsertRaised(c, k) ==
    /\ find_flavor_id(flavor_cache, c.extracted_flavors[k].term) # None
    /\ \/ SentenceContext(c.extracted_flavors[k]) = << >>
       \/ /\ c.failAt > 0
          /\ ReachesExecute(c, k)
          /\ Cardinality({j \in 1..k : ReachesExecute(c, j)}) = c.failAt

\* C17: an error on one flavor skips only that flavor: if the flavor_extractions
\* insert for one element of extracted_flavors raises, link_flavors continues, and
\* every other element whose term is known and whose row does not already exist
\* still gets its flavor_extractions row and its id in the returned list.
C17_ErrorSkipsOneFlavor ==
    \A n \in 1..Len(calls) :
        (/\ ~calls[n].aborted
         /\ \E j \in 1..Len(calls[n].extracted_flavors) : InsertRaised(calls[n], j))
        => \A k \in 1..Len(calls[n].extracted_flavors) :
              (/\ ~InsertRaised(calls[n], k)
               /\ find_flavor_id(flavor_cache, calls[n].extracted_flavors[k].term) # None
               /\ ~\E r \in 1..Len(calls[n].before) :
                      /\ calls[n].before[r].processed_review_id = calls[n].processed_review_id
                      /\ calls[n].before[r].flavor_term_id =
                            find_flavor_id(flavor_cache, calls[n].extracted_flavors[k].term))
              => /\ \E r \in 1..Len(calls[n].after) :
                       /\ calls[n].after[r].processed_review_id = calls[n].processed_review_id
                       /\ calls[n].after[r].flavor_term_id =
                             find_flavor_id(flavor_cache, calls[n].extracted_flavors[k].term)
                 /\ \E r \in 1..Len(calls[n].ids) :
                       calls[n].ids[r] =
                          find_flavor_id(flavor_cache, calls[n].extracted_flavors[k].term)

(***************************************************************************)
(* nlp_processor: process_single_post, process_batch, main                 *)
(*   raw_posts - the table, in storage order                               *)
(*   db.processed_reviews, committed.processed_reviews, nlp_extractions -  *)
(*            the tables the processor writes (every post is committed or  *)
(*            rolled back before the next one is taken)                    *)
(*   reviews - posts, the fetched batch;  i - the post the loop is at      *)
(*   script  - where main is, and process_batch's processed_count          *)
(*   last    - history: what the last process_batch call returned and the  *)
(*            number of unprocessed posts before and after it              *)
(***************************************************************************)

\* f"{value}" of a column that may be NULL: << >> is None, else <<the text>>
Format(value) == IF value = << >> THEN <<"N", "o", "n", "e">> ELSE value[1]

\* text = f"{post.get('title', '')}\n{post.get('body', '')}".strip()
PostText(post) == Strip(Format(post.title) \o <<"\n">> \o Format(post.body))

\* if not text or len(text) < 10
MinTextLen == 10

InsufficientText(post) == PostText(post) = << >> \/ Len(PostText(post)) < MinTextLen

\* the raw posts without a processed_reviews row (LEFT JOIN ... WHERE pr.id IS NULL)
Unprocessed(posts, processed) ==
    {n \in 1..Len(posts) : ~\E pr \in processed : pr.post_id = posts[n].id}

\* ORDER BY rp.scraped_at DESC LIMIT limit, over the positions rows of posts
RECURSIVE OrderByScrapedAtDesc(_, _, _)
OrderByScrapedAtDesc(posts, rows, limit) ==
    IF rows = {} \/ limit = 0 THEN << >>
    ELSE LET first == CHOOSE n \in rows :
                          \A m \in rows : posts[m].scraped_at <= posts[n].scraped_at
         IN  <<posts[first]>> \o OrderByScrapedAtDesc(posts, rows \ {first}, limit - 1)

\* process_batch(limit=50)
NlpBatchLimit == 50

\* INSERT INTO processed_reviews ... ON CONFLICT (post_id) DO UPDATE ... RETURNING id
UpsertProcessedReview(rows, id, post_id) ==
    IF \E pr \in rows : pr.post_id = post_id
    THEN {IF pr.post_id = post_id THEN [pr EXCEPT !.processed_at = today] ELSE pr : pr \in rows}
    ELSE rows \cup {[id |-> id, post_id |-> post_id, processed_at |-> today]}

\* where process_single_post can raise: nowhere, in the text processing before the
\* try block (the exception leaves main), in either INSERT or in the commit
PostOutcomes == {"none", "processing", "processed_reviews", "nlp_extractions", "commit"}

\* process_batch returning len(posts) instead of processed_count
BatchCountAll(posts, processed_count) == Len(posts)

\* return processed_count
BatchCount(posts, processed_count) == processed_count

nlpIdle == <<flavor_terms, aborted, flavor_cache, entity_cache, origin_cache, owners,
             faults, pc, total_limit, calls, today, flavor_rankings, raw_posts, step,
             trace>>

\* process_batch returns count to main: total_processed += count, break on 0
NlpReturn(count, before, after) ==
    /\ total_processed' = Min(total_processed + count, MaxTotal)
    /\ script' = [script EXCEPT !.at = IF count = 0 THEN "done" ELSE "main"]
    /\ last' = [op |-> "process_batch", count |-> count, before |-> before, after |-> after]

\* main's loop calls process_batch, which fetches the unprocessed posts; with none
\* it returns 0
NlpFetch ==
    /\ pc = "nlp" /\ script.at = "main"
    /\ \E posts \in {OrderByScrapedAtDesc(raw_posts,
                                          Unprocessed(raw_posts, db.processed_reviews),
                                          NlpBatchLimit)} :
          IF posts = << >>
          THEN /\ NlpReturn(0, 0, 0)
               /\ UNCHANGED <<reviews, i>>
          ELSE /\ reviews' = posts
               /\ i' = 1
               /\ script' = [script EXCEPT !.at = "loop", !.processed_count = 0]
               /\ last' = [op |-> "fetched", count |-> 0,
                           before |-> Cardinality(Unprocessed(raw_posts,
                                                              db.processed_reviews)),
                           after |-> 0]
               /\ UNCHANGED total_processed
    /\ UNCHANGED <<db, committed, seq, nlp_extractions, nlpIdle>>

\* process_single_post on posts[i], and the test of its result in process_batch
NlpProcessPost(raised) ==
    /\ pc = "nlp" /\ script.at = "loop" /\ i <= Len(reviews)
    /\ IF InsufficientText(reviews[i])
       THEN /\ raised = "none"
            /\ UNCHANGED <<db, committed, seq, nlp_extractions, script>>
       ELSE IF raised = "processing"
       THEN /\ script' = [script EXCEPT !.at = "raised"]
            /\ UNCHANGED <<db, committed, seq, nlp_extractions>>
       ELSE IF raised = "processed_reviews"
       THEN UNCHANGED <<db, committed, seq, nlp_extractions, script>>
       ELSE IF raised \in {"nlp_extractions", "commit"}
       THEN /\ seq' = [seq EXCEPT !.processed_reviews = @ + 1]
            /\ UNCHANGED <<db, committed, nlp_extractions, script>>
       ELSE \E rows \in {UpsertProcessedReview(db.processed_reviews,
                                               seq.processed_reviews + 1, reviews[i].id)} :
               /\ seq' = [seq EXCEPT !.processed_reviews = @ + 1]
               /\ db' = [db EXCEPT !.processed_reviews = rows]
               /\ committed' = [committed EXCEPT !.processed_reviews = rows]
               /\ nlp_extractions' =
                     [r \in DOMAIN nlp_extractions \cup {seq.processed_reviews + 1} |->
                         IF r = seq.processed_reviews + 1
                         THEN [post_id |-> reviews[i].id]
                         ELSE nlp_extractions[r]]
               /\ script' = [script EXCEPT !.processed_count = @ + 1]
    /\ i' = i + 1
    /\ UNCHANGED <<reviews, total_processed, last, nlpIdle>>

\* process_batch's return after the loop, and main's loop test
NlpBatchEnd ==
    /\ pc = "nlp" /\ script.at = "loop" /\ i > Len(reviews)
    /\ NlpReturn(BatchCount(reviews, script.processed_count), last.before,
                 Cardinality(Unprocessed(raw_posts, db.processed_reviews)))
    /\ UNCHANGED <<db, committed, seq, nlp_extractions, reviews, i, nlpIdle>>

\* bound: the rows of raw_posts
MaxPosts == 3

\* the posts of raw_posts: a long title, a short one, no title and a body that
\* makes ten characters with it, blanks around eight characters
PostKinds ==
    {[title |-> <<<<"a", "b", "c", "d", "e", "f", "g", "h", "i", "j">>>>, body |-> <<<< >>>>],
     [title |-> <<<<"a", "b">>>>, body |-> <<<< >>>>],
     [title |-> << >>, body |-> <<<<"a", "b", "c", "d", "e">>>>],
     [title |-> <<<<" ", " ">>>>, body |-> <<<<"a", "b", "c", "d", "e", "f", "g", "h", "\n">>>>]}

InitNlp ==
    /\ \E count \in 0..MaxPosts :
       \E kinds \in [1..count -> PostKinds] :
          raw_posts = [n \in 1..count |->
                         [id |-> n, title |-> kinds[n].title, body |-> kinds[n].body,
                          scraped_at |-> n]]
    /\ db = [processed_reviews |-> {}] /\ committed = [processed_reviews |-> {}]
    /\ nlp_extractions = << >>
    /\ seq = [processed_reviews |-> 0]
    /\ script = [at |-> "main", processed_count |-> 0]
    /\ pc = "nlp" /\ reviews = << >> /\ i = 0 /\ total_processed = 0
    /\ last = [op |-> "none", count |-> 0, before |-> 0, after |-> 0]
    /\ calls = << >>
    /\ flavor_terms = << >> /\ aborted = FALSE
    /\ flavor_cache = << >> /\ entity_cache = << >> /\ origin_cache = << >>
    /\ owners = {} /\ faults = 0 /\ total_limit = None
    /\ IdleRankings /\ IdleSetup

NextNlp ==
    \/ NlpFetch
    \/ \E raised \in PostOutcomes : NlpProcessPost(raised)
    \/ NlpBatchEnd

\* main is sequential code: a step that can be taken is taken
SpecNlp == InitNlp /\ [][NextNlp]_vars /\ WF_vars(NextNlp)

\* C13: the batch loop of nlp_processor.main terminates for every finite raw_posts
\* table: each process_batch call that returns a count above 0 strictly reduces the
\* number of raw posts without a processed_reviews row, and the loop exits at the
\* first call that returns 0 (and not before).
C13_NlpLoopTerminates ==
    /\ <>(script.at \in {"done", "raised"})
    /\ [](last.op = "process_batch" =>
             /\ last.count > 0 => last.after < last.before
             /\ last.count = 0 => script.at = "done")
    /\ [](script.at = "done" => (last.op = "process_batch" /\ last.count = 0))

\* C13 witness: main has left the loop after two calls that returned a count above
\* 0 and one that returned 0, and a post without a processed_reviews row is left
C13_ExitedAfterZero ==
    /\ script.at = "done"
    /\ last.op = "process_batch" /\ last.count = 0 /\ last.before > 0
    /\ total_processed = 2
    /\ Cardinality(db.processed_reviews) = 2
    /\ Cardinality(Unprocessed(raw_posts, db.processed_reviews)) = 1

====
